---- MODULE Spec2Model ----
(***************************************************************************)
(* One request against CodexCliLanguageModel (doGenerate or doStream):     *)
(* argument building with its temp files, the spawned subprocess, the      *)
(* handlers of its stdout / error / close notifications, the abort signal, *)
(* the tool tracking table and the finalization of the request.            *)
(*                                                                         *)
(* Strings that the code trims are sequences of one-character strings;     *)
(* identifiers and messages are TLA+ strings.                              *)
(***************************************************************************)
EXTENDS Integers, Sequences, FiniteSets, TLC

\* Bound: stdout lines the data callback handles in one request.
MaxEvents == 3

\* Bound: stderr chunks the subprocess prints in one run.
MaxStderr == 1

\* JavaScript `undefined` for a string-valued field; no string of the model equals it.
Undefined == "undefined"

\* A text field that is absent or not a string (typeof x !== 'string').
NoText == <<Undefined>>

\* The exit code `null` that 'close' reports for a process ended by a signal.
NullCode == 0 - 1

\* No error recorded yet.
NoError ==
    [kind |-> "none", message |-> Undefined, exitCode |-> NullCode,
     stderr |-> NoText, promptExcerpt |-> NoText]

IsString(v) == v # Undefined
IsText(t) == t # NoText

\* a ?? b
Coalesce(a, b) == IF a # Undefined THEN a ELSE b

\* JavaScript truthiness of a string-or-undefined value.
Truthy(v) == v # Undefined /\ v # ""

Whitespace == {" ", "\n", "\t"}

RECURSIVE TrimStart(_)
TrimStart(s) ==
    IF s = <<>> THEN <<>>
    ELSE IF Head(s) \in Whitespace THEN TrimStart(Tail(s)) ELSE s

RECURSIVE TrimEnd(_)
TrimEnd(s) ==
    IF s = <<>> THEN <<>>
    ELSE IF s[Len(s)] \in Whitespace THEN TrimEnd(SubSeq(s, 1, Len(s) - 1)) ELSE s

\* String.prototype.trim
Trim(s) == TrimEnd(TrimStart(s))

\* A faulty randomUUID that returns the same value on every call.
UUIDRepeated(n) == "uuid-0"

\* randomUUID(): the n-th identifier drawn in this request.
UUID(n) == "uuid-" \o ToString(n)

(***************************************************************************)
(* Events of the experimental JSON protocol, as parsed from one line.      *)
(***************************************************************************)
\* A number that the event does not carry (undefined, null or not a number).
Absent == 0 - 1

NoItem ==
    [present |-> FALSE, id |-> Undefined, item_type |-> Undefined, type |-> Undefined,
     text |-> NoText, command |-> Undefined, status |-> Undefined, cwd |-> Undefined,
     changes |-> Undefined, server |-> Undefined, tool |-> Undefined,
     arguments |-> Undefined, query |-> Undefined, exit_code |-> Absent]

Item(id, kind) == [NoItem EXCEPT !.present = TRUE, !.id = id, !.type = kind]

\* The usage object of an event; EventUsage(i, o, c) has input_tokens i,
\* output_tokens o and cached_input_tokens c, each possibly Absent.
NoUsage ==
    [present |-> FALSE, input_tokens |-> Absent, output_tokens |-> Absent,
     cached_input_tokens |-> Absent]
EventUsage(i, o, c) ==
    [present |-> TRUE, input_tokens |-> i, output_tokens |-> o, cached_input_tokens |-> c]

BlankEvent ==
    [type |-> Undefined, thread_id |-> Undefined, session_id |-> Undefined,
     message |-> Undefined, error_message |-> Undefined, item |-> NoItem,
     usage |-> NoUsage]

ThreadStarted(id) == [BlankEvent EXCEPT !.type = "thread.started", !.thread_id = id]
SessionCreated(id) == [BlankEvent EXCEPT !.type = "session.created", !.session_id = id]
\* turn.failed with error.message = em and message = m
TurnFailed(em, m) == [BlankEvent EXCEPT !.type = "turn.failed", !.error_message = em, !.message = m]
ErrorEvent(m) == [BlankEvent EXCEPT !.type = "error", !.message = m]
ItemEvent(type, item) == [BlankEvent EXCEPT !.type = type, !.item = item]
TurnCompleted(usage) == [BlankEvent EXCEPT !.type = "turn.completed", !.usage = usage]

\* A LanguageModelV2Usage with no field set: the `undefined` of extractUsage
\* and of lastUsage before any usage was seen.
UndefinedUsage ==
    [inputTokens |-> Absent, outputTokens |-> Absent, totalTokens |-> Absent,
     cachedInputTokens |-> Absent]

\* { inputTokens: 0, outputTokens: 0, totalTokens: 0 }
ZeroUsage == [UndefinedUsage EXCEPT !.inputTokens = 0, !.outputTokens = 0, !.totalTokens = 0]

\* count ?? 0
OrZero(count) == IF count = Absent THEN 0 ELSE count

\* A faulty variant of extractUsage that adds the cached tokens into the total.
ExtractUsageCountingCached(evt) ==
    IF ~evt.usage.present THEN UndefinedUsage
    ELSE [inputTokens |-> OrZero(evt.usage.input_tokens),
          outputTokens |-> OrZero(evt.usage.output_tokens),
          totalTokens |-> OrZero(evt.usage.input_tokens) + OrZero(evt.usage.output_tokens)
                             + OrZero(evt.usage.cached_input_tokens),
          cachedInputTokens |-> OrZero(evt.usage.cached_input_tokens)]

\* extractUsage
ExtractUsage(evt) ==
    IF ~evt.usage.present THEN UndefinedUsage
    ELSE [inputTokens |-> OrZero(evt.usage.input_tokens),
          outputTokens |-> OrZero(evt.usage.output_tokens),
          totalTokens |-> OrZero(evt.usage.input_tokens) + OrZero(evt.usage.output_tokens),
          cachedInputTokens |-> OrZero(evt.usage.cached_input_tokens)]
AssistantMessage(text) ==
    ItemEvent("item.completed", [Item("msg", "assistant_message") EXCEPT !.text = text])

\* getItemType: the legacy item_type when present, else type.
GetItemType(item) ==
    IF ~item.present THEN Undefined ELSE Coalesce(item.item_type, item.type)

\* getToolName
GetToolName(item) ==
    IF ~item.present THEN Undefined
    ELSE CASE GetItemType(item) = "command_execution" -> "exec"
           [] GetItemType(item) = "file_change" -> "patch"
           [] GetItemType(item) = "mcp_tool_call" ->
                 IF Truthy(item.tool) THEN item.tool ELSE "mcp_tool"
           [] GetItemType(item) = "web_search" -> "web_search"
           [] OTHER -> Undefined

\* One key of a payload object, present only when the field has the wanted type.
Field(key, value) == IF IsString(value) THEN <<key, value>> ELSE <<>>

\* buildToolInputPayload: the payload object as its key/value sequence in insertion
\* order; the empty sequence is `undefined` (the code returns no empty object).
BuildToolInputPayload(item) ==
    IF ~item.present THEN <<>>
    ELSE CASE GetItemType(item) = "command_execution" ->
                 Field("command", item.command) \o Field("status", item.status)
                     \o Field("cwd", item.cwd)
           [] GetItemType(item) = "file_change" ->
                 Field("changes", item.changes) \o Field("status", item.status)
           [] GetItemType(item) = "mcp_tool_call" ->
                 Field("server", item.server) \o Field("tool", item.tool)
                     \o Field("status", item.status) \o Field("arguments", item.arguments)
           [] GetItemType(item) = "web_search" -> Field("query", item.query)
           [] OTHER -> <<>>

\* safeStringify: '' for undefined, else the JSON text of the object.
SafeStringify(payload) ==
    IF payload = <<>> THEN <<>> ELSE <<"{">> \o payload \o <<"}">>

(***************************************************************************)
(* Stream parts (LanguageModelV2StreamPart) enqueued on the controller.    *)
(***************************************************************************)
Part(type, id) ==
    [type |-> type, id |-> id, toolName |-> Undefined, data |-> <<>>,
     providerExecuted |-> FALSE, error |-> Undefined, usage |-> UndefinedUsage,
     isError |-> FALSE]

\* A faulty variant of emitToolInvocation that enqueues tool-call before the
\* tool-input parts.
EmitToolInvocationCallFirst(toolCallId, toolName, inputPayload) ==
    LET inputString == SafeStringify(inputPayload) IN
        <<[Part("tool-call", toolCallId) EXCEPT
              !.toolName = toolName, !.data = inputString, !.providerExecuted = TRUE]>>
        \o <<[Part("tool-input-start", toolCallId) EXCEPT !.toolName = toolName]>>
        \o (IF inputString # <<>>
            THEN <<[Part("tool-input-delta", toolCallId) EXCEPT !.data = inputString]>>
            ELSE <<>>)
        \o <<Part("tool-input-end", toolCallId)>>

\* emitToolInvocation: the parts it enqueues, in order.
EmitToolInvocation(toolCallId, toolName, inputPayload) ==
    LET inputString == SafeStringify(inputPayload) IN
        <<[Part("tool-input-start", toolCallId) EXCEPT !.toolName = toolName]>>
        \o (IF inputString # <<>>
            THEN <<[Part("tool-input-delta", toolCallId) EXCEPT !.data = inputString]>>
            ELSE <<>>)
        \o <<Part("tool-input-end", toolCallId)>>
        \o <<[Part("tool-call", toolCallId) EXCEPT
                !.toolName = toolName, !.data = inputString, !.providerExecuted = TRUE]>>

\* A faulty variant of emitToolResult that flags a failed item of any kind.
EmitToolResultFlaggingAnyKind(toolCallId, toolName, item) ==
    <<[Part("tool-result", toolCallId) EXCEPT
          !.toolName = toolName,
          !.isError = \/ item.exit_code # Absent /\ item.exit_code # 0
                      \/ item.status = "failed"]>>

\* emitToolResult: the part it enqueues; isError (absent unless true) for a
\* command execution with a non-zero exit_code or status 'failed'.
EmitToolResult(toolCallId, toolName, item) ==
    <<[Part("tool-result", toolCallId) EXCEPT
          !.toolName = toolName,
          !.isError = /\ GetItemType(item) = "command_execution"
                      /\ \/ item.exit_code # Absent /\ item.exit_code # 0
                         \/ item.status = "failed"]>>

\* sendMetadata(meta): a response-metadata part with a fresh id; meta.error when given.
SendMetadata(id, errorText) ==
    <<[Part("response-metadata", id) EXCEPT !.error = errorText]>>

(***************************************************************************)
(* Errors raised to the caller.                                            *)
(***************************************************************************)
\* createAPICallError({ message, exitCode, stderr, promptExcerpt })
APICallError(message, exitCode, stderr, promptExcerpt) ==
    [kind |-> "api", message |-> message, exitCode |-> exitCode,
     stderr |-> stderr, promptExcerpt |-> promptExcerpt]

\* createAuthenticationError(message)
AuthenticationError(message) ==
    [kind |-> "auth", message |-> message, exitCode |-> NullCode,
     stderr |-> NoText, promptExcerpt |-> NoText]

\* promptText.slice(0, 200)
ExcerptLen == 200

\* A faulty variant of the excerpt that keeps the whole prompt.
SliceWhole(promptText) == promptText

Slice(promptText) ==
    SubSeq(promptText, 1, IF Len(promptText) < ExcerptLen THEN Len(promptText) ELSE ExcerptLen)

\* `Codex CLI exited with code ${code}`
ExitMessage(code) ==
    "Codex CLI exited with code " \o (IF code = NullCode THEN "null" ELSE ToString(code))

\* Messages of the child's 'error' notification, and whether
\* /login|auth|unauthorized|not\s+logged/i matches them.
SpawnErrorMessages == {"spawn codex ENOENT", "not logged in"}
MatchesAuth(message) == message = "not logged in"

\* handleSpawnError: the error it throws (it never returns).
HandleSpawnError(message, promptExcerpt) ==
    IF MatchesAuth(message) THEN AuthenticationError(message)
    ELSE APICallError(message, NullCode, NoText, promptExcerpt)

(***************************************************************************)
(* What the subprocess may print and write in one run.  A request is fed   *)
(* from one of these sets, so that each aspect is explored in depth.       *)
(***************************************************************************)
Feeds ==
    {"failures", "tools", "texts", "aborts", "sessions", "late", "garbage", "updates",
     "usage", "results",
     "settings", "idless",
     "chunks"}

CommandStarted ==
    ItemEvent("item.started",
              [Item("item_1", "command_execution") EXCEPT !.command = "ls", !.status = "in_progress"])
CommandCompleted ==
    ItemEvent("item.completed",
              [Item("item_1", "command_execution") EXCEPT !.command = "ls", !.status = "completed"])
SearchStarted == ItemEvent("item.started", Item("item_2", "web_search"))
SearchCompleted == ItemEvent("item.completed", Item("item_2", "web_search"))
ReasoningCompleted ==
    ItemEvent("item.completed", [Item("item_3", "reasoning") EXCEPT !.text = <<"r">>])
\* Completed items with an exit code and a status.
Completed(id, kind, code, status) ==
    ItemEvent("item.completed",
              [Item(id, kind) EXCEPT !.exit_code = code, !.status = status])

\* Events of a command execution whose item carries no id, and of an MCP tool
\* call whose tool field differs between the started and the completed event.
IdlessStarted ==
    ItemEvent("item.started",
              [Item(Undefined, "command_execution") EXCEPT !.command = "ls",
                                                           !.status = "in_progress"])
IdlessCompleted ==
    ItemEvent("item.completed",
              [Item(Undefined, "command_execution") EXCEPT !.command = "ls",
                                                           !.status = "completed"])
McpStarted ==
    ItemEvent("item.started",
              [Item("item_2", "mcp_tool_call") EXCEPT !.server = "docs", !.tool = "search",
                                                      !.status = "in_progress"])
McpCompleted ==
    ItemEvent("item.completed",
              [Item("item_2", "mcp_tool_call") EXCEPT !.server = "docs", !.tool = "fetch",
                                                      !.status = "completed"])

\* item.started of the assistant message, with text so far.
AssistantStarted ==
    ItemEvent("item.started", [Item("msg", "assistant_message") EXCEPT !.text = <<"n", "o">>])
\* item.updated of item_1 with a working directory added / with no input field.
CommandUpdated ==
    ItemEvent("item.updated",
              [Item("item_1", "command_execution") EXCEPT
                  !.command = "ls", !.status = "in_progress", !.cwd = "/tmp"])
CommandUpdatedBare == ItemEvent("item.updated", Item("item_1", "command_execution"))

\* Lines(f): the parsed stdout lines of feed f.
Lines(f) ==
    CASE f = "failures" ->
            {ThreadStarted("thread-1"), TurnFailed("boom", Undefined),
             TurnFailed(Undefined, ""), ErrorEvent("bad"), ErrorEvent(""),
             ErrorEvent(Undefined)}
      [] f = "tools" ->
            {ThreadStarted("thread-1"), CommandStarted, CommandCompleted,
             SearchStarted, SearchCompleted, AssistantMessage(<<"o", "k">>)}
      [] f = "texts" ->
            {AssistantMessage(<<"o", "k">>), AssistantMessage(<<>>),
             AssistantMessage(<<" ", "b", " ">>), ReasoningCompleted,
             SessionCreated("session-1")}
      [] f = "aborts" ->
            {ThreadStarted("thread-1"), AssistantMessage(<<"o", "k">>)}
      [] f = "sessions" ->
            {ThreadStarted("thread-1"), SessionCreated("session-1"),
             AssistantMessage(<<"o", "k">>), AssistantStarted}
      [] f = "late" ->
            {ThreadStarted("thread-1"), CommandStarted, CommandCompleted,
             AssistantMessage(<<"o", "k">>)}
      [] f = "garbage" ->
            {ThreadStarted("thread-1"), AssistantMessage(<<"o", "k">>),
             TurnFailed("boom", Undefined)}
      [] f = "updates" ->
            {CommandStarted, CommandUpdated, CommandUpdatedBare, CommandCompleted}
      [] f = "results" ->
            {Completed("item_1", "command_execution", 1, "completed"),
             Completed("item_1", "command_execution", 0, "failed"),
             Completed("item_1", "command_execution", 0, "completed"),
             Completed("item_2", "file_change", 1, "failed")}
      [] f = "settings" -> {}
      [] f = "chunks" -> {ThreadStarted("thread-1"), AssistantMessage(<<"o", "k">>)}
      [] f = "idless" -> {IdlessStarted, IdlessCompleted, McpStarted, McpCompleted}
      [] f = "usage" ->
            {TurnCompleted(EventUsage(4, 2, 1)), TurnCompleted(EventUsage(Absent, 3, Absent)),
             TurnCompleted(EventUsage(Absent, Absent, Absent)), TurnCompleted(NoUsage)}

\* A stdout line: the JSON text of an event, or text that JSON.parse rejects.
JsonLine(event) == [json |-> TRUE, event |-> event, part |-> "whole"]
NonJsonLine == [json |-> FALSE, event |-> BlankEvent, part |-> "whole"]

\* The two pieces of the JSON line of an event that a chunk boundary cuts:
\* chunk.split(/\r?\n/) gives each piece as a line of its own chunk, and
\* JSON.parse rejects both.
HeadOf(event) == [json |-> FALSE, event |-> event, part |-> "head"]
TailOf(event) == [json |-> FALSE, event |-> event, part |-> "tail"]

\* StdoutLines(f): the stdout lines of feed f, as the data callback gets them
\* from chunk.split(/\r?\n/).filter(Boolean).
StdoutLines(f) ==
    {JsonLine(event) : event \in Lines(f)}
        \cup (IF f = "garbage" THEN {NonJsonLine} ELSE {})
        \cup (IF f = "chunks" THEN {HeadOf(event) : event \in Lines(f)} ELSE {})

\* NextLines(given, f): the lines that may reach the data callback after the
\* lines given: the rest of the line whose first piece came last, else any
\* line of the feed.
NextLines(given, f) ==
    IF given # <<>> /\ given[Len(given)].part = "head"
    THEN {TailOf(given[Len(given)].event)}
    ELSE StdoutLines(f)

\* What parseExperimentalJsonEvent returns for a line JSON.parse rejects.
NoEvent == [BlankEvent EXCEPT !.type = "<undefined>"]

\* A faulty variant of the parser that reports a rejected line as an error event.
ParseExperimentalJsonEventReporting(line) ==
    IF line.json THEN line.event ELSE ErrorEvent("Unexpected token")

\* parseExperimentalJsonEvent: JSON.parse in try / catch.
ParseExperimentalJsonEvent(line) ==
    IF line.json THEN line.event ELSE NoEvent

\* Files(f): what the subprocess may write to the last-message file.
Files(f) ==
    IF f = "texts" THEN {<<" ", "f", "\n">>, <<"\n">>, <<>>} ELSE {<<"f", "\n">>}

\* Setups(f): the <<hasSchema, userSidecar>> settings explored with feed f.
Setups(f) ==
    IF f = "texts" THEN BOOLEAN \X BOOLEAN ELSE {<<FALSE, FALSE>>}

\* Reasons(f): the reason the caller's signal may carry once aborted; a
\* signal-like object may carry none.
Reasons(f) ==
    IF f = "aborts" THEN {Undefined, "abort-reason"} ELSE {"abort-reason"}

\* Prompts(f): the prompt text mapMessagesToPrompt may produce; the long one
\* is one character longer than the excerpt.
LongPrompt == [i \in 1..(ExcerptLen + 1) |-> IF i <= ExcerptLen THEN "x" ELSE "y"]
Prompts(f) ==
    IF f = "aborts" THEN {<<"H", "i">>, LongPrompt} ELSE {<<"H", "i">>}

\* StderrChunks(f): what the subprocess may print on stderr, chunk by chunk.
StderrChunks(f) ==
    IF f = "aborts" THEN {"warn"} ELSE {}

\* EarlierSessions(f): what this.sessionId may hold when the request starts;
\* an earlier request on the same model instance may have set it.
EarlierSessions(f) ==
    IF f = "sessions" THEN {Undefined, "thread-0"} ELSE {Undefined}

\* OtherSessions(f): the session ids that requests running at the same time
\* on the same model instance may observe in their own stdout.
OtherSessions(f) ==
    IF f = "sessions" THEN {"thread-2"} ELSE {}

\* DeliversLate(f): stdout of feed f may still be buffered when finishStream
\* has run, and then reaches the data callback afterwards.
DeliversLate(f) == f = "late"

\* Exit codes reported by 'close'.
ExitCodes == {0, 1, NullCode}

NoFile == [exists |-> FALSE, content |-> <<>>]
File(content) == [exists |-> TRUE, content |-> content]

(***************************************************************************)
(* Settings, provider options and the command line.                        *)
(***************************************************************************)

\* A value of a configOverrides map: a string, a number, a boolean, an array
\* or a plain object.  The entries of an object keep their insertion order.
ConfigValue(kind) ==
    [kind |-> kind, str |-> "", num |-> 0, bool |-> FALSE, items |-> <<>>,
     entries |-> <<>>]
Str(s) == [ConfigValue("string") EXCEPT !.str = s]
Num(n) == [ConfigValue("number") EXCEPT !.num = n]
Bool(b) == [ConfigValue("boolean") EXCEPT !.bool = b]
Arr(items) == [ConfigValue("array") EXCEPT !.items = items]
Obj(entries) == [ConfigValue("object") EXCEPT !.entries = entries]
Entry(key, value) == [key |-> key, value |-> value]

\* Object.keys, property lookup and object spread { ...a, ...b } on entries:
\* a key of both keeps a's position and takes b's value.
Keys(entries) == {entries[i].key : i \in DOMAIN entries}
Lookup(entries, key) ==
    entries[CHOOSE i \in DOMAIN entries : entries[i].key = key].value
Spread(a, b) ==
    [i \in DOMAIN a |->
        IF a[i].key \in Keys(b) THEN Entry(a[i].key, Lookup(b, a[i].key)) ELSE a[i]]
        \o SelectSeq(b, LAMBDA e : e.key \notin Keys(a))

\* String(value) of a number or boolean.
StringOf(value) ==
    IF value.kind = "number" THEN ToString(value.num)
    ELSE IF value.bool THEN "true" ELSE "false"

\* JSON.stringify of a value.
RECURSIVE JsonStringify(_)
RECURSIVE JsonItems(_, _)
RECURSIVE JsonEntries(_, _)
JsonStringify(value) ==
    CASE value.kind = "string" -> "\"" \o value.str \o "\""
      [] value.kind \in {"number", "boolean"} -> StringOf(value)
      [] value.kind = "array" -> "[" \o JsonItems(value.items, 1) \o "]"
      [] value.kind = "object" -> "{" \o JsonEntries(value.entries, 1) \o "}"
JsonItems(items, i) ==
    IF i > Len(items) THEN ""
    ELSE JsonStringify(items[i]) \o (IF i < Len(items) THEN "," ELSE "")
             \o JsonItems(items, i + 1)
JsonEntries(entries, i) ==
    IF i > Len(entries) THEN ""
    ELSE "\"" \o entries[i].key \o "\":" \o JsonStringify(entries[i].value)
             \o (IF i < Len(entries) THEN "," ELSE "")
             \o JsonEntries(entries, i + 1)

\* isPlainObject: an object that is not an array.
IsPlainObject(value) == value.kind = "object"

\* A faulty variant of serializeConfigValue that applies String() to arrays.
SerializeConfigValueJoining(value) ==
    CASE value.kind = "string" -> value.str
      [] value.kind \in {"number", "boolean"} -> StringOf(value)
      [] value.kind = "array" -> JsonItems(value.items, 1)
      [] OTHER -> JsonStringify(value)

\* serializeConfigValue.
SerializeConfigValue(value) ==
    CASE value.kind = "string" -> value.str
      [] value.kind \in {"number", "boolean"} -> StringOf(value)
      [] value.kind = "array" -> JsonStringify(value)
      [] OTHER -> JsonStringify(value)

\* addConfigOverride: the argument list after the pushes for key and value.
RECURSIVE AddConfigOverride(_, _, _)
RECURSIVE AddChildOverrides(_, _, _, _)
AddConfigOverride(args, key, value) ==
    IF IsPlainObject(value)
    THEN AddChildOverrides(args, key, value.entries, 1)
    ELSE args \o <<"-c", key \o "=" \o SerializeConfigValue(value)>>
AddChildOverrides(args, key, entries, i) ==
    IF i > Len(entries) THEN args
    ELSE AddChildOverrides(
             AddConfigOverride(args, key \o "." \o entries[i].key, entries[i].value),
             key, entries, i + 1)

\* An optional map of the settings (configOverrides, env): undefined or an object.
NoMap == [set |-> FALSE, entries |-> <<>>]
Map(entries) == [set |-> TRUE, entries |-> entries]

\* CodexCliSettings with no key set.  Scalar settings are kept as the text of
\* their value ("true" and "false" for booleans), Undefined when not set.
NoSettings ==
    [fullAuto |-> Undefined, dangerouslyBypassApprovalsAndSandbox |-> Undefined,
     approvalMode |-> Undefined, sandboxMode |-> Undefined,
     skipGitRepoCheck |-> Undefined, reasoningEffort |-> Undefined,
     reasoningSummary |-> Undefined, reasoningSummaryFormat |-> Undefined,
     modelVerbosity |-> Undefined, includePlanTool |-> Undefined,
     profile |-> Undefined, oss |-> Undefined, webSearch |-> Undefined,
     color |-> Undefined, configOverrides |-> NoMap, env |-> NoMap]
MapSettings == {"configOverrides", "env"}

\* The provider options of one call; present is FALSE when the call carries
\* no 'codex-cli' options and parseProviderOptions returns undefined.
NoProviderOptions ==
    [present |-> FALSE, reasoningEffort |-> Undefined, reasoningSummary |-> Undefined,
     reasoningSummaryFormat |-> Undefined, textVerbosity |-> Undefined,
     configOverrides |-> NoMap]
ProviderOptions == [NoProviderOptions EXCEPT !.present = TRUE]

\* The truthiness of a boolean setting.
IsOn(setting) == setting = "true"

\* The loop of buildArgs over Object.entries(settings.configOverrides).
RECURSIVE AddConfigOverrides(_, _, _)
AddConfigOverrides(args, entries, i) ==
    IF i > Len(entries) THEN args
    ELSE AddConfigOverrides(AddConfigOverride(args, entries[i].key, entries[i].value),
                            entries, i + 1)

\* A faulty variant of createModel that spreads the defaults last.
CreateModelKeepingDefaults(defaults, own) ==
    [key \in DOMAIN NoSettings |->
        IF key \in MapSettings
        THEN IF defaults[key].set THEN defaults[key] ELSE own[key]
        ELSE IF defaults[key] # Undefined THEN defaults[key] ELSE own[key]]

\* createModel: { ...options.defaultSettings, ...settings }.
CreateModel(defaults, own) ==
    [key \in DOMAIN NoSettings |->
        IF key \in MapSettings
        THEN IF own[key].set THEN own[key] ELSE defaults[key]
        ELSE IF own[key] # Undefined THEN own[key] ELSE defaults[key]]

\* A faulty variant of mergeSettings in which the call's configOverrides
\* replace the model's instead of being merged with them.
MergeSettingsReplacingOverrides(own, options) ==
    IF ~options.present
    THEN own
    ELSE [own EXCEPT
             !.reasoningEffort = Coalesce(options.reasoningEffort, own.reasoningEffort),
             !.reasoningSummary = Coalesce(options.reasoningSummary, own.reasoningSummary),
             !.reasoningSummaryFormat =
                 Coalesce(options.reasoningSummaryFormat, own.reasoningSummaryFormat),
             !.modelVerbosity = Coalesce(options.textVerbosity, own.modelVerbosity),
             !.configOverrides =
                 IF options.configOverrides.set
                 THEN options.configOverrides
                 ELSE own.configOverrides]

\* mergeSettings: the settings of the model overlaid with the call's options.
MergeSettings(own, options) ==
    IF ~options.present
    THEN own
    ELSE [own EXCEPT
             !.reasoningEffort = Coalesce(options.reasoningEffort, own.reasoningEffort),
             !.reasoningSummary = Coalesce(options.reasoningSummary, own.reasoningSummary),
             !.reasoningSummaryFormat =
                 Coalesce(options.reasoningSummaryFormat, own.reasoningSummaryFormat),
             !.modelVerbosity = Coalesce(options.textVerbosity, own.modelVerbosity),
             !.configOverrides =
                 IF options.configOverrides.set \/ own.configOverrides.set
                 THEN Map(Spread(own.configOverrides.entries,
                                 options.configOverrides.entries))
                 ELSE NoMap]

\* The text of a sequence of characters.
RECURSIVE TextOf(_)
TextOf(chars) ==
    IF Len(chars) = 0 THEN ""
    ELSE IF Len(chars) = 1 THEN chars[1]
    ELSE TextOf(SubSeq(chars, 1, Len(chars) \div 2))
             \o TextOf(SubSeq(chars, Len(chars) \div 2 + 1, Len(chars)))

\* resolveCodexPath(...).args when @openai/codex resolves, this.modelId, and
\* the paths buildArgs passes.
BaseArgs == <<"bin/codex.js">>
ModelId == "gpt-5"
SchemaPath == "codex-schema-/schema.json"
TempLastMessagePath == "codex-cli-/last-message.txt"
OutputLastMessageFile == "last-message.txt"

\* An optional flag or option of the command line.
When(condition, pushed) == IF condition THEN pushed ELSE <<>>

\* buildArgs: the argument list.
ArgsOf(prompt, schema, outputLastMessageFile, settings) ==
    LET fixed ==
            BaseArgs \o <<"exec", "--experimental-json">>
              \o (IF IsOn(settings.fullAuto)
                  THEN <<"--full-auto">>
                  ELSE IF IsOn(settings.dangerouslyBypassApprovalsAndSandbox)
                  THEN <<"--dangerously-bypass-approvals-and-sandbox">>
                  ELSE <<"-c",
                         "approval_policy=" \o Coalesce(settings.approvalMode, "on-failure"),
                         "-c",
                         "sandbox_mode=" \o Coalesce(settings.sandboxMode, "workspace-write")>>)
              \o When(settings.skipGitRepoCheck # "false", <<"--skip-git-repo-check">>)
              \o When(Truthy(settings.reasoningEffort),
                      <<"-c", "model_reasoning_effort=" \o settings.reasoningEffort>>)
              \o When(Truthy(settings.reasoningSummary),
                      <<"-c", "model_reasoning_summary=" \o settings.reasoningSummary>>)
              \o When(Truthy(settings.reasoningSummaryFormat),
                      <<"-c", "model_reasoning_summary_format="
                                  \o settings.reasoningSummaryFormat>>)
              \o When(Truthy(settings.modelVerbosity),
                      <<"-c", "model_verbosity=" \o settings.modelVerbosity>>)
              \o When(IsOn(settings.includePlanTool), <<"--include-plan-tool">>)
              \o When(Truthy(settings.profile), <<"--profile", settings.profile>>)
              \o When(IsOn(settings.oss), <<"--oss">>)
              \o When(IsOn(settings.webSearch), <<"-c", "tools.web_search=true">>)
              \o When(Truthy(settings.color), <<"--color", settings.color>>)
              \o When(Truthy(ModelId), <<"-m", ModelId>>)
        overridden ==
            IF settings.configOverrides.set
            THEN AddConfigOverrides(fixed, settings.configOverrides.entries, 1)
            ELSE fixed
    IN  overridden
          \o When(schema, <<"--output-schema", SchemaPath>>)
          \o <<TextOf(prompt)>>
          \o <<"--output-last-message",
               IF outputLastMessageFile THEN OutputLastMessageFile ELSE TempLastMessagePath>>

\* process.env.RUST_LOG.
RustLog(inherited) ==
    IF "RUST_LOG" \in Keys(inherited) THEN Lookup(inherited, "RUST_LOG") ELSE Undefined

\* buildArgs: the environment of the subprocess.
EnvOf(inherited, settings) ==
    Spread(Spread(inherited, IF settings.env.set THEN settings.env.entries ELSE <<>>),
           <<Entry("RUST_LOG",
                   IF Truthy(RustLog(inherited)) THEN RustLog(inherited) ELSE "error")>>)

\* What a request is launched with: the provider's default settings, the
\* settings of the model, the provider options of the call and process.env.
Launch(defaults, own, options, inherited) ==
    [defaultSettings |-> defaults, settings |-> own, providerOptions |-> options,
     processEnv |-> inherited]
InheritedEnv == <<Entry("PATH", "/usr/bin")>>
PlainLaunch == Launch(NoSettings, NoSettings, NoProviderOptions, InheritedEnv)

\* Settings that choose how approvals and the sandbox are configured.
ModeOverrides ==
    {NoMap,
     Map(<<Entry("approval_policy", Str("never"))>>),
     Map(<<Entry("model", Str("o3")), Entry("sandbox_mode", Str("read-only"))>>)}
ModeSettings ==
    {[NoSettings EXCEPT !.fullAuto = auto,
                        !.dangerouslyBypassApprovalsAndSandbox = bypass,
                        !.approvalMode = approval, !.sandboxMode = sandbox,
                        !.configOverrides = overrides] :
        auto \in {Undefined, "true", "false"}, bypass \in {Undefined, "true"},
        approval \in {Undefined, "never"}, sandbox \in {Undefined, "read-only"},
        overrides \in ModeOverrides}

\* Settings given at the three layers.
LayeredDefaults ==
    {[NoSettings EXCEPT !.reasoningEffort = effort, !.configOverrides = overrides] :
        effort \in {Undefined, "low"},
        overrides \in {NoMap, Map(<<Entry("setting0", Str("value0")),
                                    Entry("setting1", Str("default1"))>>)}}
LayeredSettings ==
    {[NoSettings EXCEPT !.reasoningEffort = effort, !.modelVerbosity = verbosity,
                        !.configOverrides = overrides] :
        effort \in {Undefined, "medium"}, verbosity \in {Undefined, "medium"},
        overrides \in {NoMap, Map(<<>>),
                       Map(<<Entry("setting1", Str("value1")),
                             Entry("setting2", Str("value2"))>>)}}
LayeredOptions ==
    {NoProviderOptions}
      \cup {[ProviderOptions EXCEPT !.reasoningEffort = effort,
                                    !.textVerbosity = verbosity,
                                    !.configOverrides = overrides] :
               effort \in {Undefined, "high"}, verbosity \in {Undefined, "high"},
               overrides \in {NoMap, Map(<<Entry("setting2", Str("override")),
                                           Entry("setting3", Str("value3"))>>)}}

\* configOverrides maps with values of every kind.
OverrideMaps ==
    {<<Entry("deep", Obj(<<Entry("nested", Obj(<<Entry("value", Bool(TRUE))>>))>>)),
       Entry("arr", Arr(<<Num(1), Num(2)>>)),
       Entry("dotted.key", Str("val"))>>,
     <<Entry("count", Num(42)), Entry("flag", Bool(FALSE)), Entry("name", Str("x"))>>,
     <<Entry("list", Arr(<<>>))>>,
     <<Entry("mixed", Arr(<<Str("a"), Obj(<<Entry("k", Num(1))>>), Arr(<<>>)>>))>>,
     <<Entry("headers", Obj(<<>>))>>,
     <<Entry("server", Obj(<<Entry("url", Str("u")), Entry("headers", Obj(<<>>))>>))>>,
     <<Entry("a", Obj(<<Entry("b", Num(1)), Entry("c", Num(2))>>)),
       Entry("d", Obj(<<Entry("e", Arr(<<Bool(TRUE)>>))>>))>>}

\* Environments of the parent process and settings.env maps.
InheritedEnvs ==
    {InheritedEnv,
     InheritedEnv \o <<Entry("RUST_LOG", "debug")>>,
     InheritedEnv \o <<Entry("RUST_LOG", "")>>}
EnvMaps ==
    {NoMap, Map(<<Entry("FOO", "1")>>), Map(<<Entry("RUST_LOG", "trace")>>),
     Map(<<Entry("PATH", "/opt/bin"), Entry("RUST_LOG", "trace")>>)}

\* Launches(f): what the requests of feed f are launched with.
Launches(f) ==
    IF f # "settings"
    THEN {PlainLaunch}
    ELSE {Launch(NoSettings, own, NoProviderOptions, InheritedEnv) : own \in ModeSettings}
           \cup {Launch(defaults, own, options, InheritedEnv) :
                    defaults \in LayeredDefaults, own \in LayeredSettings,
                    options \in LayeredOptions}
           \cup {Launch(NoSettings, [NoSettings EXCEPT !.configOverrides = Map(entries)],
                        NoProviderOptions, InheritedEnv) : entries \in OverrideMaps}
           \cup {Launch(NoSettings, [NoSettings EXCEPT !.env = map], NoProviderOptions,
                        inherited) : inherited \in InheritedEnvs, map \in EnvMaps}

VARIABLES
    mode,                 \* "generate" (doGenerate) or "stream" (doStream)
    feed,                 \* which feed the subprocess of this request follows
    hasSchema,            \* responseFormat is json with a schema that keeps properties
    userSidecar,          \* settings.outputLastMessageFile is set
    promptText,           \* the prompt text, a sequence of characters
    reason,               \* options.abortSignal.reason
    aborted,              \* options.abortSignal.aborted
    listening,            \* onAbort is registered on the signal
    pc,                   \* "idle", "running", "closing" (close handled, rest pending),
                          \* "done", "crashed" (uncaught exception)
    spawnCount,           \* calls of spawn
    killCount,            \* calls of child.kill('SIGTERM')
    preAborted,           \* the call found the signal already aborted
    schemaDir,            \* the codex-schema- temp directory exists
    sidecarDir,           \* the codex-cli- temp directory exists
    sidecar,              \* the last-message file on disk
    written,              \* what the subprocess wrote to the last-message file
    sidecarReads,         \* calls of readFileSync(lastMessagePath)
    text,                 \* text / accumulatedText
    turnFailureMessage,
    sessionId,            \* this.sessionId
    responseMetadataSent,
    activeTools,          \* Map<string, ActiveToolItem>
    uuidCount,            \* randomUUID() calls so far
    out,                  \* parts enqueued on the stream controller
    exitCode,             \* the code 'close' reported
    promise,              \* doGenerate's inner promise: "pending", "resolved", "rejected"
    outcome,              \* "pending"; "success" (result returned / channel closed);
                          \* "failure" (doGenerate rejected / channel errored)
    error,                \* the error of a rejected promise or an errored channel
    resultText,           \* content[0].text of doGenerate's result / the final text of doStream
    resultSessionId,      \* providerMetadata['codex-cli'].sessionId of doGenerate's result
    uncaught,             \* an exception thrown out of an event handler
    lines,                \* the stdout lines the data callback has been given, in order
    processed,            \* the events the data callback has handled, in order
    stderr,               \* the stderr chunks captured so far
    usage,                \* doGenerate's usage object
    lastUsage,            \* doStream's lastUsage
    resultUsage,          \* the usage of doGenerate's result
    closeAt,              \* Len(processed) when 'close' was handled, or -1
    finishedAt,           \* Len(processed) when the request concluded, or -1
    defaultSettings,      \* options.defaultSettings of createCodexCli
    settings,             \* the settings createModel is called with
    providerOptions,      \* the 'codex-cli' provider options of the call
    processEnv,           \* process.env
    args,                 \* the arguments spawn is called with
    env                   \* the environment spawn is called with

launch == <<defaultSettings, settings, providerOptions, processEnv>>
request == <<mode, feed, hasSchema, userSidecar, promptText, launch>>
spawned == <<args, env>>

\* effectiveSettings of doGenerate and doStream.
effectiveSettings ==
    MergeSettings(CreateModel(defaultSettings, settings), providerOptions)
signal == <<aborted, listening>>
process == <<spawnCount, killCount, preAborted, exitCode, closeAt, finishedAt>>
files == <<schemaDir, sidecarDir, sidecar, written, sidecarReads>>
parsing == <<text, turnFailureMessage, sessionId, lines, processed>>
promptExcerpt == Slice(promptText)
streaming == <<responseMetadataSent, activeTools, uuidCount, out>>
usages == <<usage, lastUsage, resultUsage>>
result == <<promise, outcome, error, resultText, resultSessionId, uncaught>>

vars ==
    <<request, signal, reason, process, files, parsing, stderr, usages, streaming, result,
      spawned, pc>>

Init ==
    /\ mode \in {"generate", "stream"}
    /\ feed \in Feeds
    /\ \E setup \in Setups(feed) :
          /\ hasSchema = setup[1]
          /\ userSidecar = setup[2]
    /\ promptText \in Prompts(feed)
    /\ aborted = FALSE
    /\ reason = Undefined
    /\ listening = FALSE
    /\ pc = "idle"
    /\ spawnCount = 0
    /\ killCount = 0
    /\ preAborted = FALSE
    /\ schemaDir = FALSE
    /\ sidecarDir = FALSE
    /\ sidecar = NoFile
    /\ written = NoFile
    /\ sidecarReads = 0
    /\ text = <<>>
    /\ turnFailureMessage = Undefined
    /\ sessionId \in EarlierSessions(feed)
    /\ responseMetadataSent = FALSE
    /\ activeTools = <<>>
    /\ uuidCount = 0
    /\ out = <<>>
    /\ exitCode = NullCode
    /\ promise = "pending"
    /\ outcome = "pending"
    /\ error = NoError
    /\ resultText = <<>>
    /\ resultSessionId = Undefined
    /\ uncaught = NoError
    /\ lines = <<>>
    /\ processed = <<>>
    /\ stderr = <<>>
    /\ usage = ZeroUsage
    /\ lastUsage = UndefinedUsage
    /\ resultUsage = UndefinedUsage
    /\ closeAt = -1
    /\ finishedAt = -1
    /\ \E chosen \in Launches(feed) :
          /\ defaultSettings = chosen.defaultSettings
          /\ settings = chosen.settings
          /\ providerOptions = chosen.providerOptions
          /\ processEnv = chosen.processEnv
    /\ args = <<>>
    /\ env = <<>>

(***************************************************************************)
(* The caller aborts options.abortSignal.  While onAbort is registered it   *)
(* asks the child to terminate; the listener is registered with            *)
(* { once: true }.  A request without a signal behaves as one whose signal *)
(* never fires.                                                            *)
(***************************************************************************)
Abort ==
    /\ ~aborted
    /\ pc \notin {"done", "crashed"}
    /\ aborted' = TRUE
    /\ reason' \in Reasons(feed)
    /\ killCount' = IF listening THEN killCount + 1 ELSE killCount
    /\ listening' = FALSE
    /\ UNCHANGED <<request, spawnCount, preAborted, exitCode, closeAt, finishedAt, files,
                   parsing, stderr, streaming, result, pc>>
    /\ UNCHANGED <<usages, spawned>>

\* A faulty variant of the abort error that drops the signal's reason.
AbortReasonDropped == [NoError EXCEPT !.kind = "error", !.message = "Request aborted"]

\* options.abortSignal.reason ?? new Error('Request aborted')
AbortReason ==
    IF reason # Undefined
    THEN [NoError EXCEPT !.kind = "abort", !.message = reason]
    ELSE [NoError EXCEPT !.kind = "error", !.message = "Request aborted"]

\* buildArgs: the temp directories it creates (mkdtempSync), the argument
\* list and the environment.
BuildArgs ==
    /\ schemaDir' = hasSchema
    /\ sidecarDir' = ~userSidecar
    /\ args' = ArgsOf(promptText, hasSchema, userSidecar, effectiveSettings)
    /\ env' = EnvOf(processEnv, effectiveSettings)
    /\ UNCHANGED <<sidecar, written, sidecarReads>>

\* A faulty variant of doGenerate that checks the signal before it spawns.
DoGenerateCheckingAbortFirst ==
    /\ pc = "idle"
    /\ mode = "generate"
    /\ BuildArgs
    /\ IF aborted
       THEN /\ preAborted' = TRUE
            /\ outcome' = "failure"
            /\ error' = AbortReason
            /\ listening' = listening
            /\ pc' = "done"
            /\ finishedAt' = Len(processed)
            /\ UNCHANGED <<spawnCount, killCount>>
       ELSE /\ spawnCount' = spawnCount + 1
            /\ listening' = TRUE
            /\ pc' = "running"
            /\ UNCHANGED <<killCount, preAborted, outcome, error, finishedAt>>
    /\ UNCHANGED <<request, aborted, reason, exitCode, closeAt, parsing, stderr, streaming,
                   promise, resultText, resultSessionId, uncaught>>
    /\ UNCHANGED usages

(***************************************************************************)
(* doGenerate up to the await: buildArgs, spawn, the abort check.          *)
(***************************************************************************)
DoGenerate ==
    /\ pc = "idle"
    /\ mode = "generate"
    /\ BuildArgs
    /\ spawnCount' = spawnCount + 1
    /\ IF aborted
       THEN /\ killCount' = killCount + 1
            /\ preAborted' = TRUE
            /\ outcome' = "failure"
            /\ error' = AbortReason
            /\ listening' = listening
            /\ pc' = "done"
            /\ finishedAt' = Len(processed)
       ELSE /\ listening' = TRUE
            /\ pc' = "running"
            /\ UNCHANGED <<killCount, preAborted, outcome, error, finishedAt>>
    /\ UNCHANGED <<request, aborted, reason, exitCode, closeAt, parsing, stderr, streaming,
                   promise, resultText, resultSessionId, uncaught>>
    /\ UNCHANGED usages

(***************************************************************************)
(* doStream up to the end of the stream's start(): buildArgs, spawn,       *)
(* stream-start, the abort check.                                          *)
(***************************************************************************)
DoStream ==
    /\ pc = "idle"
    /\ mode = "stream"
    /\ BuildArgs
    /\ spawnCount' = spawnCount + 1
    /\ out' = out \o <<Part("stream-start", Undefined)>>
    /\ IF aborted
       THEN /\ killCount' = killCount + 1
            /\ preAborted' = TRUE
            /\ outcome' = "failure"
            /\ error' = AbortReason
            /\ listening' = listening
            /\ pc' = "done"
            /\ finishedAt' = Len(processed)
       ELSE /\ listening' = TRUE
            /\ pc' = "running"
            /\ UNCHANGED <<killCount, preAborted, outcome, error, finishedAt>>
    /\ UNCHANGED <<request, aborted, reason, exitCode, closeAt, parsing, stderr,
                   responseMetadataSent, activeTools, uuidCount, promise, resultText,
                   resultSessionId, uncaught>>
    /\ UNCHANGED usages

(***************************************************************************)
(* The subprocess writes its last message to the sidecar path, once,       *)
(* before it exits.                                                        *)
(***************************************************************************)
WriteLastMessage ==
    /\ pc = "running"
    /\ ~written.exists
    /\ \E content \in Files(feed) :
          /\ sidecar' = File(content)
          /\ written' = File(content)
    /\ UNCHANGED <<request, signal, reason, process, schemaDir, sidecarDir, sidecarReads,
                   parsing, stderr, streaming, result, pc>>
    /\ UNCHANGED <<usages, spawned>>

\* The failure text of a turn.failed event:
\* (error && typeof error.message === 'string' && error.message) ||
\* (typeof message === 'string' ? message : undefined)
TurnFailedText(event) ==
    IF Truthy(event.error_message) THEN event.error_message ELSE event.message

\* The session id an event sets, if any.
SessionOf(event, current) ==
    IF event.type = "thread.started" /\ IsString(event.thread_id) THEN event.thread_id
    ELSE IF event.type = "session.created" /\ IsString(event.session_id) THEN event.session_id
    ELSE current

\* A faulty variant of the test that accepts a completed item of any kind.
IsAssistantTextOfAnyKind(event) ==
    /\ event.type = "item.completed"
    /\ event.item.present
    /\ IsText(event.item.text)

\* An item.completed assistant_message with a string text.
IsAssistantText(event) ==
    /\ event.type = "item.completed"
    /\ GetItemType(event.item) = "assistant_message"
    /\ IsText(event.item.text)

(***************************************************************************)
(* doGenerate's stdout data callback, for one parsed line.                 *)
(***************************************************************************)
GenerateData(event) ==
    /\ sessionId' = SessionOf(event, sessionId)
    /\ text' = IF IsAssistantText(event) THEN event.item.text ELSE text
    /\ turnFailureMessage' =
          IF event.type = "turn.failed"
          THEN Coalesce(TurnFailedText(event), Coalesce(turnFailureMessage, "Codex turn failed"))
          ELSE IF event.type = "error"
          THEN Coalesce(event.message, Coalesce(turnFailureMessage, "Codex error"))
          ELSE turnFailureMessage
    /\ usage' =
          IF event.type = "turn.completed" /\ ExtractUsage(event) # UndefinedUsage
          THEN [usage EXCEPT !.inputTokens = ExtractUsage(event).inputTokens,
                             !.outputTokens = ExtractUsage(event).outputTokens,
                             !.totalTokens = ExtractUsage(event).totalTokens]
          ELSE usage
    /\ UNCHANGED <<lastUsage, resultUsage, streaming>>

\* A faulty variant of handleItemEvent that emits the tool invocation for every
\* event of an item, whether or not it was emitted before.
HandleItemEventReemitting(event) ==
    LET item == event.item
        toolName == GetToolName(item)
        hasId == IsString(item.id) /\ item.id # ""
        mapKey == IF hasId THEN item.id ELSE UUID(uuidCount + 1)
        latestInput == BuildToolInputPayload(item)
        toolState ==
            IF mapKey \notin DOMAIN activeTools
            THEN [toolCallId |-> mapKey, toolName |-> toolName,
                  inputPayload |-> latestInput, hasEmittedCall |-> FALSE]
            ELSE [activeTools[mapKey] EXCEPT
                     !.toolName = toolName,
                     !.inputPayload = IF latestInput # <<>> THEN latestInput ELSE @]
        invocation ==
            EmitToolInvocation(toolState.toolCallId, toolState.toolName,
                               toolState.inputPayload)
        completion ==
            IF event.type = "item.completed"
            THEN EmitToolResult(toolState.toolCallId, toolState.toolName, item)
            ELSE <<>>
    IN  IF ~item.present
        THEN UNCHANGED <<text, streaming>>
        ELSE IF IsAssistantText(event)
        THEN /\ text' = item.text
             /\ UNCHANGED streaming
        ELSE IF toolName = Undefined
        THEN UNCHANGED <<text, streaming>>
        ELSE /\ out' = out \o invocation \o completion
             /\ activeTools' =
                   IF event.type = "item.completed"
                   THEN [k \in DOMAIN activeTools \ {mapKey} |-> activeTools[k]]
                   ELSE [k \in DOMAIN activeTools \cup {mapKey} |->
                            IF k = mapKey THEN [toolState EXCEPT !.hasEmittedCall = TRUE]
                            ELSE activeTools[k]]
             /\ uuidCount' = IF hasId THEN uuidCount ELSE uuidCount + 1
             /\ UNCHANGED <<text, responseMetadataSent>>

\* A faulty variant of handleItemEvent that appends the text of an assistant
\* message to the text accumulated so far.
HandleItemEventAppending(event) ==
    LET item == event.item
        toolName == GetToolName(item)
        hasId == IsString(item.id) /\ item.id # ""
        mapKey == IF hasId THEN item.id ELSE UUID(uuidCount + 1)
        latestInput == BuildToolInputPayload(item)
        toolState ==
            IF mapKey \notin DOMAIN activeTools
            THEN [toolCallId |-> mapKey, toolName |-> toolName,
                  inputPayload |-> latestInput, hasEmittedCall |-> FALSE]
            ELSE [activeTools[mapKey] EXCEPT
                     !.toolName = toolName,
                     !.inputPayload = IF latestInput # <<>> THEN latestInput ELSE @]
        invocation ==
            IF ~toolState.hasEmittedCall
            THEN EmitToolInvocation(toolState.toolCallId, toolState.toolName,
                                    toolState.inputPayload)
            ELSE <<>>
        completion ==
            IF event.type = "item.completed"
            THEN EmitToolResult(toolState.toolCallId, toolState.toolName, item)
            ELSE <<>>
    IN  IF ~item.present
        THEN UNCHANGED <<text, streaming>>
        ELSE IF IsAssistantText(event)
        THEN /\ text' = text \o item.text
             /\ UNCHANGED streaming
        ELSE IF toolName = Undefined
        THEN UNCHANGED <<text, streaming>>
        ELSE /\ out' = out \o invocation \o completion
             /\ activeTools' =
                   IF event.type = "item.completed"
                   THEN [k \in DOMAIN activeTools \ {mapKey} |-> activeTools[k]]
                   ELSE [k \in DOMAIN activeTools \cup {mapKey} |->
                            IF k = mapKey THEN [toolState EXCEPT !.hasEmittedCall = TRUE]
                            ELSE activeTools[k]]
             /\ uuidCount' = IF hasId THEN uuidCount ELSE uuidCount + 1
             /\ UNCHANGED <<text, responseMetadataSent>>

(***************************************************************************)
(* handleItemEvent of doStream.                                            *)
(***************************************************************************)
HandleItemEvent(event) ==
    LET item == event.item
        toolName == GetToolName(item)
        hasId == IsString(item.id) /\ item.id # ""
        mapKey == IF hasId THEN item.id ELSE UUID(uuidCount + 1)
        latestInput == BuildToolInputPayload(item)
        toolState ==
            IF mapKey \notin DOMAIN activeTools
            THEN [toolCallId |-> mapKey, toolName |-> toolName,
                  inputPayload |-> latestInput, hasEmittedCall |-> FALSE]
            ELSE [activeTools[mapKey] EXCEPT
                     !.toolName = toolName,
                     !.inputPayload = IF latestInput # <<>> THEN latestInput ELSE @]
        invocation ==
            IF ~toolState.hasEmittedCall
            THEN EmitToolInvocation(toolState.toolCallId, toolState.toolName,
                                    toolState.inputPayload)
            ELSE <<>>
        completion ==
            IF event.type = "item.completed"
            THEN EmitToolResult(toolState.toolCallId, toolState.toolName, item)
            ELSE <<>>
    IN  IF ~item.present
        THEN UNCHANGED <<text, streaming>>
        ELSE IF IsAssistantText(event)
        THEN /\ text' = item.text
             /\ UNCHANGED streaming
        ELSE IF toolName = Undefined
        THEN UNCHANGED <<text, streaming>>
        ELSE /\ out' = out \o invocation \o completion
             /\ activeTools' =
                   IF event.type = "item.completed"
                   THEN [k \in DOMAIN activeTools \ {mapKey} |-> activeTools[k]]
                   ELSE [k \in DOMAIN activeTools \cup {mapKey} |->
                            IF k = mapKey THEN [toolState EXCEPT !.hasEmittedCall = TRUE]
                            ELSE activeTools[k]]
             /\ uuidCount' = IF hasId THEN uuidCount ELSE uuidCount + 1
             /\ UNCHANGED <<text, responseMetadataSent>>

\* A faulty variant of the turn.completed branch that keeps the first usage.
StreamUsageKeepingFirst(event) ==
    IF event.type = "turn.completed" /\ ExtractUsage(event) # UndefinedUsage
       /\ lastUsage = UndefinedUsage
    THEN ExtractUsage(event)
    ELSE lastUsage

\* The turn.completed branch of doStream's data callback: lastUsage after the
\* event (a session event never reaches the branch).
StreamUsage(event) ==
    IF event.type = "turn.completed" /\ ExtractUsage(event) # UndefinedUsage
    THEN ExtractUsage(event)
    ELSE lastUsage

\* The session branch of doStream's data callback: response-metadata once.
SessionMetadata ==
    IF ~responseMetadataSent
    THEN /\ responseMetadataSent' = TRUE
         /\ out' = out \o SendMetadata(UUID(uuidCount + 1), Undefined)
         /\ uuidCount' = uuidCount + 1
         /\ UNCHANGED activeTools
    ELSE UNCHANGED streaming

(***************************************************************************)
(* doStream's stdout data callback, for one parsed line.                   *)
(***************************************************************************)
StreamData(event) ==
    IF (event.type = "thread.started" /\ IsString(event.thread_id))
       \/ (event.type = "session.created" /\ IsString(event.session_id))
    THEN /\ sessionId' = SessionOf(event, sessionId)
         /\ SessionMetadata
         /\ UNCHANGED <<text, turnFailureMessage>>
    ELSE IF event.type = "turn.completed"
    THEN UNCHANGED <<text, turnFailureMessage, sessionId, streaming>>
    ELSE IF event.type = "turn.failed"
    THEN /\ turnFailureMessage' =
               Coalesce(TurnFailedText(event),
                        Coalesce(turnFailureMessage, "Codex turn failed"))
         /\ out' = out \o SendMetadata(UUID(uuidCount + 1), turnFailureMessage')
         /\ uuidCount' = uuidCount + 1
         /\ UNCHANGED <<text, sessionId, responseMetadataSent, activeTools>>
    ELSE IF event.type = "error"
    THEN LET effective == Coalesce(event.message, "Codex error") IN
         /\ turnFailureMessage' = Coalesce(turnFailureMessage, effective)
         /\ out' = out \o SendMetadata(UUID(uuidCount + 1), effective)
         /\ uuidCount' = uuidCount + 1
         /\ UNCHANGED <<text, sessionId, responseMetadataSent, activeTools>>
    ELSE IF event.type \in {"item.started", "item.updated", "item.completed"}
    THEN /\ HandleItemEvent(event)
         /\ UNCHANGED <<turnFailureMessage, sessionId>>
    ELSE UNCHANGED <<text, turnFailureMessage, sessionId, streaming>>

\* controller.enqueue on a channel that is closed or errored throws this.
EnqueueError ==
    [NoError EXCEPT !.kind = "type", !.message = "Invalid state: Controller is already closed"]

(***************************************************************************)
(* doStream's stdout data callback for one parsed line when the channel    *)
(* has been closed or errored: the assignments made before the first       *)
(* controller.enqueue take effect, the enqueue throws out of the callback. *)
(***************************************************************************)
LateStreamData(event) ==
    LET item == event.item
        toolName == GetToolName(item)
        hasId == IsString(item.id) /\ item.id # ""
        mapKey == IF hasId THEN item.id ELSE UUID(uuidCount + 1)
        latestInput == BuildToolInputPayload(item)
        toolState ==
            IF mapKey \notin DOMAIN activeTools
            THEN [toolCallId |-> mapKey, toolName |-> toolName,
                  inputPayload |-> latestInput, hasEmittedCall |-> FALSE]
            ELSE [activeTools[mapKey] EXCEPT
                     !.toolName = toolName,
                     !.inputPayload = IF latestInput # <<>> THEN latestInput ELSE @]
        isSession ==
            \/ event.type = "thread.started" /\ IsString(event.thread_id)
            \/ event.type = "session.created" /\ IsString(event.session_id)
        isItem == event.type \in {"item.started", "item.updated", "item.completed"}
        isTool == isItem /\ item.present /\ ~IsAssistantText(event) /\ toolName # Undefined
        enqueues ==
            \/ isSession /\ ~responseMetadataSent
            \/ ~isSession /\ event.type \in {"turn.failed", "error"}
            \/ ~isSession /\ isTool
                  /\ (~toolState.hasEmittedCall \/ event.type = "item.completed")
    IN  /\ sessionId' = IF isSession THEN SessionOf(event, sessionId) ELSE sessionId
        /\ responseMetadataSent' = (responseMetadataSent \/ isSession)
        /\ turnFailureMessage' =
              IF isSession THEN turnFailureMessage
              ELSE IF event.type = "turn.failed"
              THEN Coalesce(TurnFailedText(event),
                            Coalesce(turnFailureMessage, "Codex turn failed"))
              ELSE IF event.type = "error"
              THEN Coalesce(turnFailureMessage, Coalesce(event.message, "Codex error"))
              ELSE turnFailureMessage
        /\ text' = IF ~isSession /\ isItem /\ item.present /\ IsAssistantText(event)
                   THEN item.text ELSE text
        /\ activeTools' =
              IF ~isSession /\ isTool
              THEN [k \in DOMAIN activeTools \cup {mapKey} |->
                       IF k = mapKey THEN toolState ELSE activeTools[k]]
              ELSE activeTools
        /\ uuidCount' =
              IF (isSession /\ ~responseMetadataSent)
                 \/ (~isSession /\ event.type \in {"turn.failed", "error"})
                 \/ (~isSession /\ isTool /\ ~hasId)
              THEN uuidCount + 1 ELSE uuidCount
        /\ out' = out
        /\ uncaught' = IF enqueues THEN EnqueueError ELSE uncaught
        /\ pc' = IF enqueues THEN "crashed" ELSE pc
        /\ UNCHANGED <<promise, outcome, error, resultText, resultSessionId>>

(***************************************************************************)
(* One line of the subprocess's stdout reaches the data callback.  The     *)
(* listener stays attached after 'close', so a line still buffered then is *)
(* handled before the rest of the request runs, or after finishStream has  *)
(* ended the channel.                                                      *)
(***************************************************************************)
StdoutData ==
    /\ \/ pc \in {"running", "closing"}
       \/ pc = "done" /\ mode = "stream" /\ ~preAborted /\ DeliversLate(feed)
    /\ Len(lines) < MaxEvents
    /\ \E line \in NextLines(lines, feed) :
          LET event == ParseExperimentalJsonEvent(line) IN
          /\ lines' = Append(lines, line)
          /\ IF event = NoEvent
             THEN UNCHANGED <<text, turnFailureMessage, sessionId, processed, usages,
                              streaming, result, pc>>
             ELSE /\ processed' = Append(processed, event)
                  /\ IF mode = "generate"
                     THEN GenerateData(event) /\ UNCHANGED <<result, pc>>
                     ELSE IF outcome = "pending"
                     THEN /\ StreamData(event)
                          /\ lastUsage' = StreamUsage(event)
                          /\ UNCHANGED <<usage, resultUsage, result, pc>>
                     ELSE /\ LateStreamData(event)
                          /\ lastUsage' = StreamUsage(event)
                          /\ UNCHANGED <<usage, resultUsage>>
    /\ UNCHANGED <<request, signal, reason, process, files, stderr, spawned>>

(***************************************************************************)
(* The data callback of another request that runs on the same model        *)
(* instance handles a session event of its own subprocess while this       *)
(* request is in flight: it assigns the instance field this.sessionId.     *)
(***************************************************************************)
OtherRequestSession ==
    /\ pc \in {"running", "closing"}
    /\ \E id \in OtherSessions(feed) :
          /\ sessionId # id
          /\ sessionId' = id
    /\ UNCHANGED <<request, signal, reason, process, files, text, turnFailureMessage,
                   lines, processed, stderr, streaming, result, pc>>
    /\ UNCHANGED <<usages, spawned>>

(***************************************************************************)
(* One chunk of the subprocess's stderr: stderr += String(d).              *)
(***************************************************************************)
StderrData ==
    /\ pc \in {"running", "closing"}
    /\ Len(stderr) < MaxStderr
    /\ \E chunk \in StderrChunks(feed) : stderr' = Append(stderr, chunk)
    /\ UNCHANGED <<request, signal, reason, process, files, parsing, streaming, result, pc>>
    /\ UNCHANGED <<usages, spawned>>

(***************************************************************************)
(* The child's 'error' notification.  handleSpawnError throws, so the      *)
(* handler ends with an exception before reject / controller.error is      *)
(* called; doStream's handler has removed the abort listener and cleaned   *)
(* the schema directory by then.  The exception leaves the event emitter   *)
(* uncaught, which ends the Node process: the request goes no further.     *)
(***************************************************************************)
SpawnError ==
    /\ pc = "running"
    /\ uncaught = NoError
    /\ \E message \in SpawnErrorMessages :
          uncaught' = HandleSpawnError(message, promptExcerpt)
    /\ IF mode = "stream"
       THEN /\ listening' = FALSE
            /\ schemaDir' = FALSE
       ELSE UNCHANGED <<listening, schemaDir>>
    /\ UNCHANGED <<request, aborted, reason, process, sidecarDir, sidecar, written,
                   sidecarReads, parsing, stderr, streaming, promise, outcome, error,
                   resultText, resultSessionId>>
    /\ pc' = "crashed"
    /\ UNCHANGED <<usages, spawned>>

\* doGenerate's 'close' handler: settles the inner promise.
GenerateClose(code) ==
    /\ IF code = 0
       THEN IF Truthy(turnFailureMessage)
            THEN /\ promise' = "rejected"
                 /\ error' = APICallError(turnFailureMessage, NullCode, stderr, promptExcerpt)
            ELSE /\ promise' = "resolved"
                 /\ error' = error
       ELSE /\ promise' = "rejected"
            /\ error' = APICallError(ExitMessage(code), code, stderr, promptExcerpt)
    /\ UNCHANGED <<listening, schemaDir>>

\* doStream's 'close' handler: removes the abort listener, cleans the schema
\* directory and defers finishStream(code) with setImmediate.
StreamClose(code) ==
    /\ listening' = FALSE
    /\ schemaDir' = FALSE
    /\ UNCHANGED <<promise, error>>

(***************************************************************************)
(* The child's 'close' notification.                                       *)
(***************************************************************************)
Close ==
    /\ pc = "running"
    /\ \E code \in ExitCodes :
          /\ exitCode' = code
          /\ IF mode = "generate" THEN GenerateClose(code) ELSE StreamClose(code)
    /\ closeAt' = Len(processed)
    /\ pc' = "closing"
    /\ UNCHANGED <<request, aborted, reason, spawnCount, killCount, preAborted, finishedAt,
                   sidecarDir, sidecar, written, sidecarReads, parsing, stderr, streaming,
                   outcome, resultText, resultSessionId, uncaught>>
    /\ UNCHANGED <<usages, spawned>>

\* A faulty variant of the sidecar fallback that returns the file text untrimmed.
FallbackUntrimmed(accumulated) ==
    IF sidecar.exists /\ sidecar.content # <<>> THEN sidecar.content ELSE accumulated

\* The sidecar fallback: readFileSync, trim, then rmSync of lastMessagePath.
\* Gives the final text for the text accumulated so far.
Fallback(accumulated) ==
    IF sidecar.exists /\ sidecar.content # <<>> THEN Trim(sidecar.content) ELSE accumulated

(***************************************************************************)
(* doGenerate after the await: the finally block, then either the          *)
(* rejection propagates or the fallback runs and the result is returned.   *)
(***************************************************************************)
GenerateReturn ==
    /\ pc = "closing"
    /\ mode = "generate"
    /\ listening' = FALSE
    /\ schemaDir' = FALSE
    /\ IF promise = "rejected"
       THEN /\ outcome' = "failure"
            /\ UNCHANGED <<text, sidecar, sidecarReads, resultText, resultSessionId>>
       ELSE /\ outcome' = "success"
            /\ IF text = <<>>
               THEN /\ sidecarReads' = sidecarReads + 1
                    /\ text' = Fallback(text)
                    /\ sidecar' = NoFile
               ELSE UNCHANGED <<text, sidecar, sidecarReads>>
            /\ resultText' = text'
            /\ resultSessionId' = IF Truthy(sessionId) THEN sessionId ELSE Undefined
    /\ pc' = "done"
    /\ finishedAt' = Len(processed)
    /\ UNCHANGED <<request, aborted, reason, spawnCount, killCount, preAborted, exitCode,
                   closeAt, sidecarDir, written, turnFailureMessage, sessionId, lines,
                   processed, stderr, streaming, promise, error, uncaught>>
    /\ resultUsage' = IF promise = "rejected" THEN resultUsage ELSE usage
    /\ UNCHANGED <<usage, lastUsage, spawned>>

Indices(seq) == 1..Len(seq)

\* The text of the last assistant-message item.completed event handled.
RECURSIVE LastAssistantText(_)
LastAssistantText(events) ==
    IF events = <<>> THEN <<>>
    ELSE IF IsAssistantText(events[Len(events)]) THEN events[Len(events)].item.text
    ELSE LastAssistantText(SubSeq(events, 1, Len(events) - 1))

\* The usage of the last turn.completed event with a usage object among the
\* first n events handled, all zeros when there is none.
RECURSIVE UsageOfLastTurn(_)
UsageOfLastTurn(n) ==
    IF n <= 0 THEN ZeroUsage
    ELSE IF processed[n].type = "turn.completed" /\ processed[n].usage.present
    THEN ExtractUsage(processed[n])
    ELSE UsageOfLastTurn(n - 1)

\* A faulty variant of finishStream's closing parts that carries the text and
\* the usage of the events handled before 'close', as finalization inside the
\* 'close' handler would.
FinishPartsAtClose(finalText, textId) ==
    LET closedText == LastAssistantText(SubSeq(processed, 1, closeAt))
        shownText == IF closedText # <<>> THEN closedText ELSE finalText
    IN  (IF finalText # <<>>
         THEN <<Part("text-start", textId),
                [Part("text-delta", textId) EXCEPT !.data = shownText],
                Part("text-end", textId)>>
         ELSE <<>>)
        \o <<[Part("finish", Undefined) EXCEPT !.usage = UsageOfLastTurn(closeAt)]>>

\* A faulty variant of finishStream's closing parts that omits text-start.
FinishPartsWithoutTextStart(finalText, textId) ==
    (IF finalText # <<>>
     THEN <<[Part("text-delta", textId) EXCEPT !.data = finalText],
            Part("text-end", textId)>>
     ELSE <<>>)
    \o <<[Part("finish", Undefined) EXCEPT
             !.usage = IF lastUsage = UndefinedUsage THEN ZeroUsage ELSE lastUsage]>>

\* finishStream's closing parts: the single-shot text sequence when the final
\* text is not empty, then finish.
FinishParts(finalText, textId) ==
    (IF finalText # <<>>
     THEN <<Part("text-start", textId),
            [Part("text-delta", textId) EXCEPT !.data = finalText],
            Part("text-end", textId)>>
     ELSE <<>>)
    \o <<[Part("finish", Undefined) EXCEPT
             !.usage = IF lastUsage = UndefinedUsage THEN ZeroUsage ELSE lastUsage]>>

\* A faulty variant of finishStream that is scheduled only for exit code 0.
FinishStreamOnlyOnSuccess ==
    /\ exitCode = 0
    /\ pc = "closing"
    /\ mode = "stream"
    /\ IF exitCode # 0
       THEN /\ outcome' = "failure"
            /\ error' = APICallError(ExitMessage(exitCode), exitCode, stderr, promptExcerpt)
            /\ UNCHANGED <<sidecar, sidecarReads, resultText, out, uuidCount>>
       ELSE IF Truthy(turnFailureMessage)
       THEN /\ outcome' = "failure"
            /\ error' = APICallError(turnFailureMessage, NullCode, stderr, promptExcerpt)
            /\ UNCHANGED <<sidecar, sidecarReads, resultText, out, uuidCount>>
       ELSE LET finalText == IF text = <<>> THEN Fallback(text) ELSE text
                textId == UUID(uuidCount + 1)
            IN  /\ IF text = <<>>
                   THEN /\ sidecarReads' = sidecarReads + 1
                        /\ sidecar' = NoFile
                   ELSE UNCHANGED <<sidecar, sidecarReads>>
                /\ resultText' = finalText
                /\ out' = out \o FinishParts(finalText, textId)
                /\ uuidCount' = IF finalText # <<>> THEN uuidCount + 1 ELSE uuidCount
                /\ outcome' = "success"
                /\ error' = error
    /\ pc' = "done"
    /\ finishedAt' = Len(processed)
    /\ UNCHANGED <<request, signal, reason, spawnCount, killCount, preAborted, exitCode,
                   closeAt, schemaDir, sidecarDir, written, parsing, stderr,
                   responseMetadataSent, activeTools, promise, resultSessionId, uncaught>>
    /\ UNCHANGED <<usages, spawned>>

(***************************************************************************)
(* finishStream(code), run by setImmediate after 'close'.                  *)
(***************************************************************************)
FinishStream ==
    /\ pc = "closing"
    /\ mode = "stream"
    /\ IF exitCode # 0
       THEN /\ outcome' = "failure"
            /\ error' = APICallError(ExitMessage(exitCode), exitCode, stderr, promptExcerpt)
            /\ UNCHANGED <<sidecar, sidecarReads, resultText, out, uuidCount>>
       ELSE IF Truthy(turnFailureMessage)
       THEN /\ outcome' = "failure"
            /\ error' = APICallError(turnFailureMessage, NullCode, stderr, promptExcerpt)
            /\ UNCHANGED <<sidecar, sidecarReads, resultText, out, uuidCount>>
       ELSE LET finalText == IF text = <<>> THEN Fallback(text) ELSE text
                textId == UUID(uuidCount + 1)
            IN  /\ IF text = <<>>
                   THEN /\ sidecarReads' = sidecarReads + 1
                        /\ sidecar' = NoFile
                   ELSE UNCHANGED <<sidecar, sidecarReads>>
                /\ resultText' = finalText
                /\ out' = out \o FinishParts(finalText, textId)
                /\ uuidCount' = IF finalText # <<>> THEN uuidCount + 1 ELSE uuidCount
                /\ outcome' = "success"
                /\ error' = error
    /\ pc' = "done"
    /\ finishedAt' = Len(processed)
    /\ UNCHANGED <<request, signal, reason, spawnCount, killCount, preAborted, exitCode,
                   closeAt, schemaDir, sidecarDir, written, parsing, stderr,
                   responseMetadataSent, activeTools, promise, resultSessionId, uncaught>>
    /\ UNCHANGED <<usages, spawned>>

Next ==
    \/ Abort
    \/ DoGenerate
    \/ DoStream
    \/ WriteLastMessage
    \/ StdoutData
    \/ StderrData
    \/ OtherRequestSession
    \/ SpawnError
    \/ Close
    \/ GenerateReturn
    \/ FinishStream

Spec == Init /\ [][Next]_vars

\* The continuation of doGenerate's await and the setImmediate callback of
\* doStream's 'close' handler run once they are due.
LiveSpec == Spec /\ WF_vars(GenerateReturn) /\ WF_vars(FinishStream)

(***************************************************************************)
(* Properties.                                                             *)
(***************************************************************************)
\* Number of enqueued parts of a type / of a type and id.
CountType(type) == Cardinality({i \in Indices(out) : out[i].type = type})
CountParts(type, id) ==
    Cardinality({i \in Indices(out) : out[i].type = type /\ out[i].id = id})

IsFailureEvent(event) == event.type \in {"turn.failed", "error"}

\* A turn.failed or error event was handled before 'close' was.
FailureBeforeClose == \E i \in 1..closeAt : IsFailureEvent(processed[i])

\* C1: a request whose stdout carried a turn.failed or error event before the
\* process exited concludes as a failure, whatever the exit code and the error
\* text, and a stream then carries no finish part.
C1_FailureEventFailsRequest ==
    (pc = "done" /\ FailureBeforeClose) =>
        (outcome = "failure" /\ CountType("finish") = 0)

ToolKinds == {"command_execution", "file_change", "mcp_tool_call", "web_search"}

\* A recognized tool item with this id was reported completed.
CompletedSeen(id) ==
    \E i \in Indices(processed) :
        /\ processed[i].type = "item.completed"
        /\ processed[i].item.id = id
        /\ GetItemType(processed[i].item) \in ToolKinds

ItemIds == {"item_1", "item_2"}

\* C2: in doStream, an item id with at least one item.completed of a recognized
\* tool kind has exactly one tool-call and exactly one tool-result, however many
\* events carry that id.
C2_OneCallOneResultPerId ==
    mode = "stream" =>
        \A id \in ItemIds :
            CompletedSeen(id) =>
                (CountParts("tool-call", id) = 1 /\ CountParts("tool-result", id) = 1)

ToolPartTypes ==
    {"tool-input-start", "tool-input-delta", "tool-input-end", "tool-call", "tool-result"}

IsToolPart(i) == out[i].type \in ToolPartTypes

\* Earlier tool parts with the id of part i.
Before(i) == {j \in 1..(i - 1) : IsToolPart(j) /\ out[j].id = out[i].id}

\* Position of the closest earlier tool part with the id of part i, 0 if none.
Prev(i) == IF Before(i) = {} THEN 0 ELSE CHOOSE j \in Before(i) : \A k \in Before(i) : k <= j

PrevType(i) == IF Prev(i) = 0 THEN "none" ELSE out[Prev(i)].type

\* C3: the parts of one toolCallId come in the order tool-input-start, tool-input-delta
\* (exactly when the serialized input is not empty), tool-input-end, tool-call with
\* providerExecuted, tool-result; so each tool-result follows a tool-call of its id,
\* also when parts of other ids lie in between.
C3_ToolPartOrder ==
    \A i \in Indices(out) :
        /\ out[i].type = "tool-result" =>
              (PrevType(i) = "tool-call" /\ out[Prev(i)].providerExecuted)
        /\ out[i].type = "tool-call" =>
              /\ out[i].providerExecuted
              /\ PrevType(i) = "tool-input-end"
              /\ IF out[i].data # <<>>
                 THEN /\ PrevType(Prev(i)) = "tool-input-delta"
                      /\ out[Prev(Prev(i))].data = out[i].data
                 ELSE PrevType(Prev(i)) = "tool-input-start"
        /\ out[i].type = "tool-input-end" =>
              PrevType(i) \in {"tool-input-start", "tool-input-delta"}
        /\ out[i].type = "tool-input-delta" =>
              (out[i].data # <<>> /\ PrevType(i) = "tool-input-start")
        /\ out[i].type = "tool-input-start" => PrevType(i) \in {"none", "tool-result"}

\* C3 witness: a tool-result of item_1 whose tool-call lies before parts of item_2.
C3_Witness ==
    \E i, j, k \in Indices(out) :
        /\ i < j /\ j < k
        /\ out[i].type = "tool-call" /\ out[i].id = "item_1" /\ out[i].data # <<>>
        /\ out[j].type = "tool-call" /\ out[j].id = "item_2" /\ out[j].data = <<>>
        /\ out[k].type = "tool-result" /\ out[k].id = "item_1"

\* C4: once a request has concluded, the schema temp directory and an
\* auto-generated last-message file are gone.
C4_TempFilesRemoved ==
    pc = "done" => (~schemaDir /\ (~userSidecar => ~sidecar.exists))

\* C5: a last-message file at a user-supplied path is still there, with what the
\* subprocess wrote, once the request has concluded.
C5_UserSidecarKept ==
    (pc = "done" /\ userSidecar /\ written.exists) => sidecar = written

\* The trimmed content the subprocess left in the last-message file, empty if none.
TrimmedSidecar == IF written.exists THEN Trim(written.content) ELSE <<>>

\* The events the data callback had handled when the request concluded.
Concluded == SubSeq(processed, 1, finishedAt)

\* C6: on success the final text is the event text when that is not empty, else
\* the trimmed sidecar content (empty when the file is missing); the file is not
\* read when the event text is not empty; doStream's text-delta carries that text.
C6_FinalText ==
    (pc = "done" /\ outcome = "success") =>
        /\ resultText =
              IF LastAssistantText(Concluded) # <<>>
              THEN LastAssistantText(Concluded)
              ELSE TrimmedSidecar
        /\ LastAssistantText(Concluded) # <<>> => sidecarReads = 0
        /\ mode = "stream" =>
              /\ CountType("text-delta") = IF resultText # <<>> THEN 1 ELSE 0
              /\ \A i \in Indices(out) :
                    out[i].type = "text-delta" => out[i].data = resultText

\* C6 witness: a successful request without event text whose final text is the
\* sidecar content with its surrounding whitespace removed.
C6_Witness ==
    /\ pc = "done" /\ outcome = "success"
    /\ LastAssistantText(processed) = <<>>
    /\ written.exists
    /\ resultText # <<>>
    /\ resultText # written.content

\* C7: doStream ends its channel once 'close' is handled: with an error and no
\* finish when a failure message is pending or the exit code is not 0, else with
\* one finish as the last part and a close.
C7_StreamEndsByExit ==
    (mode = "stream" /\ pc = "done" /\ closeAt >= 0) =>
        IF turnFailureMessage # Undefined \/ exitCode # 0
        THEN outcome = "failure" /\ CountType("finish") = 0
        ELSE /\ outcome = "success"
             /\ CountType("finish") = 1
             /\ out[Len(out)].type = "finish"

TextPartTypes == {"text-start", "text-delta", "text-end"}

\* C8: stream-start is the first part of every stream; a successful stream with a
\* non-empty final text ends with text-start, one text-delta with the whole text,
\* text-end (one shared id) and finish, and holds no other text or finish part.
C8_StreamPartOrder ==
    mode = "stream" =>
        /\ pc # "idle" => (out # <<>> /\ out[1].type = "stream-start")
        /\ CountType("stream-start") <= 1
        /\ (pc = "done" /\ outcome = "success") =>
              (CountType("finish") = 1 /\ out[Len(out)].type = "finish")
        /\ (pc = "done" /\ outcome = "success" /\ resultText # <<>>) =>
              LET n == Len(out) IN
                  /\ n >= 5
                  /\ out[n - 3].type = "text-start"
                  /\ out[n - 2].type = "text-delta"
                  /\ out[n - 2].data = resultText
                  /\ out[n - 1].type = "text-end"
                  /\ out[n - 3].id = out[n - 2].id
                  /\ out[n - 2].id = out[n - 1].id
                  /\ \A i \in 1..(n - 4) : out[i].type \notin TextPartTypes \cup {"finish"}

\* C8 witness: a successful stream with response-metadata, tool parts and text.
C8_Witness ==
    /\ mode = "stream" /\ pc = "done" /\ outcome = "success"
    /\ resultText # <<>>
    /\ CountType("response-metadata") = 1
    /\ CountType("tool-result") = 1

\* C9: doStream enqueues at most one response-metadata part per request.
C9_OneResponseMetadata == CountType("response-metadata") <= 1

\* C10 as claimed: a call that finds the signal already aborted never spawns.
C10_NoSpawnWhenPreAborted == preAborted => spawnCount = 0

\* C10: a call that finds the signal already aborted has spawned the subprocess
\* once and sent it SIGTERM at once; none of its output and no exit is handled.
C10_PreAbortedSpawnsThenKills ==
    preAborted =>
        /\ spawnCount = 1
        /\ killCount = 1
        /\ processed = <<>>
        /\ closeAt = -1
        /\ pc = "done"

\* C10 witness: a doGenerate call that found the signal already aborted.
C10_Witness == mode = "generate" /\ preAborted /\ killCount = 1

\* The value a call that finds its signal aborted must fail with: the signal's
\* reason itself, or a plain Error('Request aborted') when it carries none.
ReasonOrGeneric ==
    IF reason = Undefined
    THEN [NoError EXCEPT !.kind = "error", !.message = "Request aborted"]
    ELSE [NoError EXCEPT !.kind = "abort", !.message = reason]

\* C11: a call whose signal is already aborted fails with exactly the signal's
\* reason (a generic 'Request aborted' error when there is none): doGenerate
\* rejects and returns no result, doStream errors its channel and emits no
\* text part and no finish.
C11_PreAbortedFailsWithReason ==
    preAborted =>
        /\ outcome = "failure"
        /\ error = ReasonOrGeneric
        /\ promise = "pending"
        /\ resultText = <<>>
        /\ \A type \in TextPartTypes \cup {"finish"} : CountType(type) = 0

\* C11 witness: doStream found its signal aborted without a reason and has
\* errored the channel.
C11_Witness ==
    /\ preAborted
    /\ mode = "stream"
    /\ reason = Undefined
    /\ outcome = "failure"

\* C12: when the signal fires while doGenerate's subprocess is running,
\* doGenerate asks the subprocess to terminate and its promise is rejected
\* with the signal's reason itself, not with an API-call error.
C12_RunningAbortRejectsWithReason ==
    [][(mode = "generate" /\ pc = "running")
          => /\ (~aborted /\ aborted') => killCount' = killCount + 1
             /\ (aborted /\ promise' # promise)
                   => (promise' = "rejected" /\ error' = ReasonOrGeneric)]_vars

\* onAbort of doStream has asked the running subprocess to terminate (the
\* listener is removed when 'close' is handled, so the signal fired before).
StreamAbortedWhileRunning == mode = "stream" /\ ~preAborted /\ killCount > 0

\* C13: once the signal has fired while doStream's subprocess was running
\* (SIGTERM requested, the channel left as it was at that moment), the
\* request emits no text part and no finish, and when the exit handling has
\* run the channel has ended with an error.
C13_RunningAbortEndsInError ==
    StreamAbortedWhileRunning =>
        /\ \A type \in TextPartTypes \cup {"finish"} : CountType(type) = 0
        /\ outcome # "success"
        /\ pc = "done" => outcome = "failure"

\* The 'error' handler of the child has run: handleSpawnError has classified
\* the spawn error (authentication or API-call).
SpawnErrorHandled == uncaught.kind \in {"auth", "api"}

\* C14: once the subprocess has reported a spawn error, the request has
\* concluded with the classified error (authentication when the message
\* matches login/auth/unauthorized/not-logged, API-call otherwise):
\* doGenerate's promise is rejected with it, doStream's channel is errored
\* with it.
C14_SpawnErrorConcludesRequest ==
    SpawnErrorHandled =>
        /\ error.kind = (IF uncaught.message = "not logged in" THEN "auth" ELSE "api")
        /\ error.message = uncaught.message
        /\ mode = "generate" => promise = "rejected"
        /\ mode = "stream" => outcome = "failure"

\* t is made of the first characters of s.
IsPrefix(t, s) ==
    /\ Len(t) <= Len(s)
    /\ \A i \in 1..Len(t) : t[i] = s[i]

\* C15: when doGenerate's subprocess exits with a non-zero code, the 'close'
\* handler rejects with an API-call error whose exitCode is that code, which
\* carries the stderr captured so far and a prompt excerpt made of at most
\* the first 200 characters of the prompt; doGenerate then fails with this
\* error and returns no result.
C15_NonZeroExitRejects ==
    [][mode = "generate" =>
          /\ (pc = "running" /\ pc' = "closing" /\ exitCode' \notin {0, NullCode})
                => /\ promise' = "rejected"
                   /\ error'.kind = "api"
                   /\ error'.exitCode = exitCode'
                   /\ error'.stderr = stderr
                   /\ Len(error'.promptExcerpt) <= 200
                   /\ IsPrefix(error'.promptExcerpt, promptText)
          /\ (pc = "closing" /\ pc' = "done" /\ exitCode \notin {0, NullCode})
                => /\ outcome' = "failure"
                   /\ error' = error
                   /\ resultText' = <<>>]_vars

\* C15 witness: doGenerate has failed after exit code 1 with stderr output
\* captured and a prompt longer than the excerpt.
C15_Witness ==
    /\ mode = "generate"
    /\ pc = "done"
    /\ exitCode = 1
    /\ outcome = "failure"
    /\ error.stderr = <<"warn">>
    /\ Len(promptText) > 200
    /\ Len(error.promptExcerpt) = 200

\* The session id an event of the request's own stdout carries, if any.
EventSession(event) ==
    IF event.type = "thread.started" THEN event.thread_id
    ELSE IF event.type = "session.created" THEN event.session_id
    ELSE Undefined

\* The last session id among the first n events the request has handled.
RECURSIVE LastOwnSession(_)
LastOwnSession(n) ==
    IF n = 0 THEN Undefined
    ELSE IF EventSession(processed[n]) # Undefined THEN EventSession(processed[n])
    ELSE LastOwnSession(n - 1)

\* C16: the sessionId in the provider metadata of doGenerate's result is
\* present exactly when the request's own stdout carried a session event, and
\* then is the last id of that stdout, whatever earlier or concurrent
\* requests on the same model instance observed.
C16_ResultSessionIsOwn ==
    (mode = "generate" /\ pc = "done" /\ outcome = "success")
        => resultSessionId = LastOwnSession(Len(processed))

\* C17: a stdout event that reaches doStream's data callback after the
\* channel has been closed or errored is tolerated: handling it raises no
\* exception and emits nothing.
C17_LateEventTolerated ==
    [][(mode = "stream" /\ outcome # "pending" /\ processed' # processed)
          => (uncaught' = uncaught /\ out' = out)]_vars

\* The last stdout line given to the data callback, after a step that gave it one.
LastLine == lines'[Len(lines')]

\* C18: of the stdout lines a request is given, those that are valid JSON
\* are handled one by one in their order, each exactly as it would be
\* without the other lines; a line that is not JSON yields no event, changes
\* nothing and raises no exception.
C18_NonJsonLinesSkipped ==
    [][lines' # lines =>
          /\ lines' = Append(lines, LastLine)
          /\ LastLine.json => processed' = Append(processed, LastLine.event)
          /\ ~LastLine.json =>
                UNCHANGED <<request, signal, reason, process, files, text,
                            turnFailureMessage, sessionId, processed, stderr, usages,
                            streaming, result, pc>>]_vars

\* C18 witness: doGenerate has returned the text of a valid line that came
\* between two lines that are not JSON.
C18_Witness ==
    /\ mode = "generate"
    /\ pc = "done"
    /\ outcome = "success"
    /\ Len(lines) = 3
    /\ ~lines[1].json /\ lines[2].json /\ ~lines[3].json
    /\ processed = <<AssistantMessage(<<"o", "k">>)>>
    /\ resultText = <<"o", "k">>

\* The event of the last stdout line, after a step in which the data callback
\* handled one more event.
LastEvent == processed'[Len(processed')]

\* C19: in doStream, an item.started or item.updated event for an id that is
\* tracked (invocation emitted, not yet completed) emits no part at all, and
\* replaces the cached input payload by the event's payload when it has one.
C19_RepeatedItemEmitsNothing ==
    [][(/\ mode = "stream"
        /\ outcome = "pending"
        /\ processed' # processed
        /\ LastEvent.type \in {"item.started", "item.updated"}
        /\ LastEvent.item.id \in DOMAIN activeTools)
          => LET id == LastEvent.item.id
                 payload == BuildToolInputPayload(LastEvent.item)
             IN  /\ out' = out
                 /\ id \in DOMAIN activeTools'
                 /\ activeTools'[id].inputPayload =
                       IF payload # <<>> THEN payload ELSE activeTools[id].inputPayload]_vars

\* C19 witness: item_1 was started, updated with a working directory and
\* updated again without input fields; the cached payload holds the directory
\* and the invocation parts were emitted once.
C19_Witness ==
    /\ mode = "stream"
    /\ processed = <<CommandStarted, CommandUpdated, CommandUpdatedBare>>
    /\ "item_1" \in DOMAIN activeTools
    /\ activeTools["item_1"].inputPayload = BuildToolInputPayload(CommandUpdated.item)
    /\ activeTools["item_1"].inputPayload # BuildToolInputPayload(CommandStarted.item)
    /\ CountParts("tool-input-start", "item_1") = 1
    /\ CountParts("tool-call", "item_1") = 1

\* The event is an item.completed whose item is of kind assistant_message.
CompletedAssistantMessage(event) ==
    /\ event.type = "item.completed"
    /\ event.item.present
    /\ (IF event.item.item_type # Undefined THEN event.item.item_type ELSE event.item.type)
          = "assistant_message"

\* C20: handling an event changes the accumulated final text only when the
\* event is an item.completed of kind assistant_message; reasoning items and
\* items of every other kind, started or completed, and all other events
\* leave it as it was, in doGenerate and in doStream.
C20_OnlyAssistantMessageSetsText ==
    [][(processed' # processed /\ ~CompletedAssistantMessage(LastEvent)) => text' = text]_vars

\* C20 witness: a completed reasoning item with text was handled after the
\* assistant message and the accumulated text is still the assistant's.
C20_Witness ==
    /\ processed = <<AssistantMessage(<<"o", "k">>), ReasoningCompleted>>
    /\ ReasoningCompleted.item.text = <<"r">>
    /\ text = <<"o", "k">>
    /\ pc = "running"

\* C21: the finish part of doStream carries the usage of the last
\* turn.completed event that had usage, or input 0, output 0, total 0 when no
\* such event was handled; no other part carries usage.
C21_FinishCarriesLastUsage ==
    mode = "stream" =>
        \A i \in Indices(out) :
            out[i].usage =
                IF out[i].type = "finish" THEN UsageOfLastTurn(finishedAt) ELSE UndefinedUsage

\* C21 witness: a stream finished after two turn.completed events with
\* different usage and a third without usage; finish carries the second.
C21_Witness ==
    /\ mode = "stream"
    /\ Concluded = <<TurnCompleted(EventUsage(4, 2, 1)),
                     TurnCompleted(EventUsage(Absent, 3, Absent)), TurnCompleted(NoUsage)>>
    /\ \E i \in Indices(out) :
          /\ out[i].type = "finish"
          /\ out[i].usage.outputTokens = 3
          /\ out[i].usage.totalTokens = 3

\* C22: the usage of doGenerate's result has the input, output, total and
\* cached input token counts that doStream's finish part carries for the
\* same events.
C22_GenerateUsageAsStream ==
    (mode = "generate" /\ pc = "done" /\ outcome = "success")
        => resultUsage = UsageOfLastTurn(finishedAt)

\* C23: handling a turn.completed event with usage reports as total the
\* input tokens plus the output tokens, a missing count taken as 0; the
\* cached input tokens are reported beside it and are not part of the total.
C23_TotalIsInputPlusOutput ==
    [][(/\ processed' # processed
        /\ LastEvent.type = "turn.completed"
        /\ LastEvent.usage.present)
          => LET in == IF LastEvent.usage.input_tokens = Absent
                       THEN 0 ELSE LastEvent.usage.input_tokens
                 outp == IF LastEvent.usage.output_tokens = Absent
                         THEN 0 ELSE LastEvent.usage.output_tokens
                 cached == IF LastEvent.usage.cached_input_tokens = Absent
                           THEN 0 ELSE LastEvent.usage.cached_input_tokens
             IN  IF mode = "generate"
                 THEN /\ usage'.inputTokens = in
                      /\ usage'.outputTokens = outp
                      /\ usage'.totalTokens = in + outp
                 ELSE /\ lastUsage'.inputTokens = in
                      /\ lastUsage'.outputTokens = outp
                      /\ lastUsage'.totalTokens = in + outp
                      /\ lastUsage'.cachedInputTokens = cached]_vars

\* C23 witness: usage { input_tokens: 4, output_tokens: 2, cached_input_tokens: 1 }
\* was handled by doStream; the total is 6 and the cached count 1.
C23_Witness ==
    /\ mode = "stream"
    /\ processed = <<TurnCompleted(EventUsage(4, 2, 1))>>
    /\ lastUsage.totalTokens = 6
    /\ lastUsage.cachedInputTokens = 1

\* C30: the tool-result part emitted for a completed item has isError set
\* exactly when the item is a command execution whose exit_code is a number
\* other than 0 or whose status is "failed"; for every other item of every
\* tool kind the field is absent.
C30_IsErrorOnlyForFailedCommand ==
    [][(/\ mode = "stream"
        /\ outcome = "pending"
        /\ processed' # processed
        /\ LastEvent.type = "item.completed"
        /\ LastEvent.item.present
        /\ (IF LastEvent.item.item_type # Undefined
            THEN LastEvent.item.item_type ELSE LastEvent.item.type) \in ToolKinds)
          => LET item == LastEvent.item
                 kind == IF item.item_type # Undefined THEN item.item_type ELSE item.type
                 part == out'[Len(out')]
             IN  /\ Len(out') > Len(out)
                 /\ part.type = "tool-result"
                 /\ part.isError <=>
                       /\ kind = "command_execution"
                       /\ \/ item.exit_code \notin {Absent, 0}
                          \/ item.status = "failed"]_vars

\* C30 witness: three tool results in a row: a command with exit code 1
\* (flagged), a file change with status "failed" (not flagged), a command
\* with exit code 0 and status "failed" (flagged).
C30_Witness ==
    /\ mode = "stream"
    /\ processed = <<Completed("item_1", "command_execution", 1, "completed"),
                     Completed("item_2", "file_change", 1, "failed"),
                     Completed("item_1", "command_execution", 0, "failed")>>
    /\ \E i, j, k \in Indices(out) :
          /\ i < j /\ j < k
          /\ out[i].type = "tool-result" /\ out[i].isError
          /\ out[j].type = "tool-result" /\ ~out[j].isError /\ out[j].id = "item_2"
          /\ out[k].type = "tool-result" /\ out[k].isError

\* startsWith on strings, and the arguments of the spawned command.
StartsWith(arg, prefix) ==
    Len(arg) >= Len(prefix) /\ SubSeq(arg, 1, Len(prefix)) = prefix
HasArg(arg) == \E i \in DOMAIN args : args[i] = arg
HasAssignment(key) == \E i \in DOMAIN args : StartsWith(args[i], key \o "=")
ArgsBuilt == pc # "idle"

\* C24: with any settings, configOverrides included, the arguments carry no
\* approval_policy=... and no sandbox_mode=... when fullAuto or
\* dangerouslyBypassApprovalsAndSandbox is set, and neither --full-auto nor
\* --dangerously-bypass-approvals-and-sandbox when neither is set.
C24_ModeFlagsExcludeModeOverrides ==
    ArgsBuilt =>
        IF \/ IsOn(effectiveSettings.fullAuto)
           \/ IsOn(effectiveSettings.dangerouslyBypassApprovalsAndSandbox)
        THEN ~HasAssignment("approval_policy") /\ ~HasAssignment("sandbox_mode")
        ELSE /\ ~HasArg("--full-auto")
             /\ ~HasArg("--dangerously-bypass-approvals-and-sandbox")

\* The value of the highest layer that sets a field: the call's options, then
\* the model's settings, then the provider's defaults.
Highest(lowest, middle, top) ==
    IF providerOptions.present /\ top # Undefined THEN top
    ELSE IF middle # Undefined THEN middle
    ELSE lowest
Assignments(key) == {i \in DOMAIN args : StartsWith(args[i], key \o "=")}
AssignedOnce(key, value) ==
    IF value = Undefined
    THEN Assignments(key) = {}
    ELSE /\ Cardinality(Assignments(key)) = 1
         /\ \A i \in Assignments(key) : args[i] = key \o "=" \o value

DedicatedKeys ==
    {"approval_policy", "sandbox_mode", "model_reasoning_effort",
     "model_reasoning_summary", "model_reasoning_summary_format", "model_verbosity",
     "tools.web_search"}

\* this.settings.configOverrides and the configOverrides of the call.
ModelOverrides == CreateModel(defaultSettings, settings).configOverrides.entries
CallOverrides == providerOptions.configOverrides.entries

\* C26: the configOverrides of the call are merged key by key with those of
\* the model: a key only the model sets is still emitted, and a key set at
\* both levels is emitted once, with the call's value.
C26_OverridesMergedByKey ==
    ArgsBuilt =>
        \A key \in (Keys(ModelOverrides) \cup Keys(CallOverrides)) \ DedicatedKeys :
            LET value == IF key \in Keys(CallOverrides)
                         THEN Lookup(CallOverrides, key)
                         ELSE Lookup(ModelOverrides, key)
            IN  ~IsPlainObject(value) => AssignedOnce(key, SerializeConfigValue(value))

\* C26 witness: the model sets setting1 and setting2, the call sets setting2
\* and setting3; setting1 keeps the model's value and setting2 has the call's.
C26_Witness ==
    /\ ArgsBuilt
    /\ Keys(ModelOverrides) = {"setting1", "setting2"}
    /\ Keys(CallOverrides) = {"setting2", "setting3"}
    /\ HasArg("setting1=value1")
    /\ HasArg("setting2=override")
    /\ HasArg("setting3=value3")
    /\ ~HasArg("setting2=value2")

\* The argument before args[i] is -c.
AfterDashC(i) == i > 1 /\ args[i - 1] = "-c"

\* Flattened(key, value): every leaf under key has its one -c argument, with
\* the dotted key and the leaf's text: a string as it is, a number or boolean
\* stringified, an array as its JSON text.
RECURSIVE Flattened(_, _)
Flattened(key, value) ==
    IF IsPlainObject(value)
    THEN \A i \in DOMAIN value.entries :
            Flattened(key \o "." \o value.entries[i].key, value.entries[i].value)
    ELSE /\ AssignedOnce(key,
                CASE value.kind = "string" -> value.str
                  [] value.kind = "number" -> ToString(value.num)
                  [] value.kind = "boolean" -> IF value.bool THEN "true" ELSE "false"
                  [] value.kind = "array" -> JsonStringify(value))
         /\ \A i \in Assignments(key) : AfterDashC(i)

\* C27: configOverrides are flattened recursively: a nested plain object
\* gives one -c per leaf with a dotted key, an array a single -c with its
\* JSON text (key=[] when empty), a string, number or boolean its text.
C27_OverridesFlattened ==
    ArgsBuilt =>
        \A i \in DOMAIN effectiveSettings.configOverrides.entries :
            LET entry == effectiveSettings.configOverrides.entries[i] IN
            entry.key \notin DedicatedKeys => Flattened(entry.key, entry.value)

\* C27 witness: { deep: { nested: { value: true } }, arr: [1, 2],
\* 'dotted.key': 'val' } gave deep.nested.value=true, arr=[1,2] and
\* dotted.key=val.
C27_Witness ==
    /\ ArgsBuilt
    /\ Keys(effectiveSettings.configOverrides.entries) = {"deep", "arr", "dotted.key"}
    /\ HasArg("deep.nested.value=true")
    /\ HasArg("arr=[1,2]")
    /\ HasArg("dotted.key=val")
    /\ Assignments("deep") = {}

\* EmptyObjectsKept(key, value): every plain object without entries at or
\* under key has its argument key={}.
RECURSIVE EmptyObjectsKept(_, _)
EmptyObjectsKept(key, value) ==
    IF ~IsPlainObject(value) THEN TRUE
    ELSE IF value.entries = <<>> THEN HasArg(key \o "={}")
    ELSE \A i \in DOMAIN value.entries :
            EmptyObjectsKept(key \o "." \o value.entries[i].key, value.entries[i].value)

\* C28: a configOverrides value that is a plain object without entries, at
\* the top level or nested, is emitted as -c key={} and is not left out.
C28_EmptyObjectEmitted ==
    ArgsBuilt =>
        \A i \in DOMAIN effectiveSettings.configOverrides.entries :
            EmptyObjectsKept(effectiveSettings.configOverrides.entries[i].key,
                             effectiveSettings.configOverrides.entries[i].value)

\* The value of a variable in the environment of the subprocess, and the
\* settings.env of the request.
EnvValue(key) == IF key \in Keys(env) THEN Lookup(env, key) ELSE Undefined
SettingsEnv == effectiveSettings.env.entries

\* C29: the subprocess gets the inherited environment overlaid with
\* settings.env, and RUST_LOG=error only when RUST_LOG is not set otherwise:
\* every variable of settings.env, RUST_LOG included, has the user's value.
C29_SettingsEnvReachesSubprocess ==
    ArgsBuilt =>
        /\ \A key \in Keys(SettingsEnv) : EnvValue(key) = Lookup(SettingsEnv, key)
        /\ \A key \in Keys(processEnv) \ (Keys(SettingsEnv) \cup {"RUST_LOG"}) :
              EnvValue(key) = Lookup(processEnv, key)
        /\ "RUST_LOG" \notin Keys(SettingsEnv) =>
              EnvValue("RUST_LOG") =
                  IF Truthy(RustLog(processEnv)) THEN RustLog(processEnv) ELSE "error"

\* An item event of a recognized tool kind, the ones handleItemEvent tracks.
ItemEventTypes == {"item.started", "item.updated", "item.completed"}
IsToolEvent(event) ==
    /\ event.type \in ItemEventTypes
    /\ event.item.present
    /\ ~IsAssistantText(event)
    /\ GetToolName(event.item) # Undefined
HasId(event) == IsString(event.item.id) /\ event.item.id # ""

\* The ids whose last tool event among events is not item.completed, and the
\* number of tool events without id that are not item.completed.
OpenIds(events) ==
    {id \in ItemIds :
        \E i \in Indices(events) :
            /\ IsToolEvent(events[i]) /\ events[i].item.id = id
            /\ events[i].type # "item.completed"
            /\ \A j \in (i + 1)..Len(events) :
                  ~(/\ IsToolEvent(events[j]) /\ events[j].item.id = id
                    /\ events[j].type = "item.completed")}
OpenIdless(events) ==
    Cardinality({i \in Indices(events) :
                    /\ IsToolEvent(events[i]) /\ ~HasId(events[i])
                    /\ events[i].type # "item.completed"})

\* C31: after every item event doStream has processed, the tracking table
\* holds exactly the recognized tool items observed and not yet completed,
\* every entry has its call-emitted flag set, and processing item.completed
\* for an id has emitted its result and removed the entry.
C31_TableHoldsOpenTools ==
    [][(/\ mode = "stream"
        /\ processed' # processed
        /\ LastEvent.type \in ItemEventTypes)
          => /\ DOMAIN activeTools' \cap ItemIds = OpenIds(processed')
             /\ Cardinality(DOMAIN activeTools' \ ItemIds) = OpenIdless(processed')
             /\ \A key \in DOMAIN activeTools' : activeTools'[key].hasEmittedCall
             /\ (/\ IsToolEvent(LastEvent) /\ HasId(LastEvent)
                 /\ LastEvent.type = "item.completed")
                   => /\ Len(out') > Len(out)
                      /\ out'[Len(out')].type = "tool-result"
                      /\ out'[Len(out')].id = LastEvent.item.id
                      /\ LastEvent.item.id \notin DOMAIN activeTools']_vars

\* C32: in doStream every event of a recognized tool item without id gets a
\* fresh key: it emits a tool-call with a toolCallId no earlier part and no
\* table entry has, an item.completed emits its tool-result under that same
\* new key and removes no entry, and an entry made for an id-less
\* item.started is never removed from the tracking table.
C32_IdlessEventsAreUnrelated ==
    [][/\ \A key \in DOMAIN activeTools \ ItemIds : key \in DOMAIN activeTools'
       /\ (/\ mode = "stream"
           /\ outcome = "pending"
           /\ processed' # processed
           /\ IsToolEvent(LastEvent)
           /\ ~HasId(LastEvent))
             => /\ Len(out') >= Len(out) + 4
                /\ out'[Len(out) + 4].type = "tool-call"
                /\ LET key == out'[Len(out) + 4].id IN
                   /\ \A i \in Indices(out) : out[i].id # key
                   /\ key \notin DOMAIN activeTools
                   /\ IF LastEvent.type = "item.completed"
                      THEN /\ Len(out') = Len(out) + 5
                           /\ out'[Len(out')].type = "tool-result"
                           /\ out'[Len(out')].id = key
                           /\ DOMAIN activeTools' = DOMAIN activeTools
                      ELSE /\ Len(out') = Len(out) + 4
                           /\ DOMAIN activeTools' = DOMAIN activeTools \cup {key}]_vars

\* C32 witness: a stream that handled item.started and item.completed of a
\* command execution without id has finished with two tool-calls of different
\* toolCallIds and one tool-result, for the second; the first is still tracked.
C32_Witness ==
    /\ mode = "stream"
    /\ pc = "done"
    /\ processed = <<IdlessStarted, IdlessCompleted>>
    /\ CountType("tool-call") = 2
    /\ CountType("tool-result") = 1
    /\ \E i, j \in Indices(out) :
          /\ i < j
          /\ out[i].type = "tool-call"
          /\ out[j].type = "tool-call"
          /\ out[i].id # out[j].id
          /\ CountParts("tool-result", out[j].id) = 1
          /\ DOMAIN activeTools = {out[i].id}

\* turnFailureMessage of doStream after the first n events handled.
RECURSIVE StreamFailureMessage(_)
StreamFailureMessage(n) ==
    IF n <= 0 THEN Undefined
    ELSE LET earlier == StreamFailureMessage(n - 1)
             event == processed[n]
         IN  IF event.type = "turn.failed"
             THEN Coalesce(TurnFailedText(event), Coalesce(earlier, "Codex turn failed"))
             ELSE IF event.type = "error"
             THEN Coalesce(earlier, Coalesce(event.message, "Codex error"))
             ELSE earlier

\* C33: doStream's 'close' handler concludes nothing and emits nothing;
\* finalization runs as a later step and reflects every event handled until
\* then, those handled after 'close' included, in the failure decision, the
\* final text and the usage.
C33_FinalizationAfterDrain ==
    [][/\ (mode = "stream" /\ pc = "running" /\ pc' = "closing")
             => (outcome' = "pending" /\ out' = out)
       /\ (mode = "stream" /\ pc = "closing" /\ pc' = "done" /\ exitCode = 0)
             => LET eventText == LastAssistantText(processed)
                    finalText == IF eventText # <<>> THEN eventText ELSE TrimmedSidecar
                IN  /\ outcome' = "failure"
                          <=> Truthy(StreamFailureMessage(Len(processed)))
                    /\ outcome' = "success" =>
                          /\ resultText' = finalText
                          /\ \A i \in Indices(out') :
                                /\ out'[i].type = "text-delta" => out'[i].data = finalText
                                /\ out'[i].type = "finish"
                                      => out'[i].usage = UsageOfLastTurn(Len(processed))]_vars

\* C33 witness: a stream closed with code 0 before any event was handled; an
\* assistant message handled between 'close' and finalization is the final text.
C33_Witness ==
    /\ mode = "stream"
    /\ pc = "done"
    /\ outcome = "success"
    /\ closeAt = 0
    /\ finishedAt = 1
    /\ IsAssistantText(processed[1])
    /\ resultText = <<"o", "k">>
    /\ \E i \in Indices(out) : out[i].type = "text-delta" /\ out[i].data = <<"o", "k">>

\* turnFailureMessage of doGenerate after the first n events handled.
RECURSIVE GenerateFailureMessage(_)
GenerateFailureMessage(n) ==
    IF n <= 0 THEN Undefined
    ELSE LET earlier == GenerateFailureMessage(n - 1)
             event == processed[n]
         IN  IF event.type = "turn.failed"
             THEN Coalesce(TurnFailedText(event), Coalesce(earlier, "Codex turn failed"))
             ELSE IF event.type = "error"
             THEN Coalesce(event.message, Coalesce(earlier, "Codex error"))
             ELSE earlier

\* C34: doGenerate's decision accounts for every stdout line its data callback
\* was given: with exit code 0 the request rejects exactly when the events
\* handled for it, those handled after 'close' included, left a failure message.
C34_GenerateDecisionCountsEveryLine ==
    (mode = "generate" /\ pc = "done" /\ ~preAborted /\ exitCode = 0)
        => (outcome = "failure" <=> Truthy(GenerateFailureMessage(Len(processed))))

\* The events of the JSON lines the subprocess wrote among the lines given:
\* a line given whole, or one whose second piece has been given.
RECURSIVE WrittenEvents(_)
WrittenEvents(given) ==
    IF given = <<>> THEN <<>>
    ELSE LET line == given[Len(given)]
             before == WrittenEvents(SubSeq(given, 1, Len(given) - 1))
         IN  IF (line.json /\ line.part = "whole") \/ line.part = "tail"
             THEN Append(before, line.event)
             ELSE before

\* C35: the events processed do not depend on how stdout is cut into chunks:
\* once every piece of the lines written has been given to the data callback,
\* the events processed are the events of the JSON lines written, in order,
\* each once.
C35_ChunkingIsInvisible ==
    (lines = <<>> \/ lines[Len(lines)].part # "head")
        => processed = WrittenEvents(lines)

\* C36: for the same events and the same exit code doGenerate and doStream
\* fail with the same message: a failed request carries the message that the
\* other call derives from the events it had handled when it decided, and the
\* exit message when the exit code is not 0.
C36_SameFailureMessage ==
    (pc = "done" /\ ~preAborted /\ outcome = "failure")
        => error.message =
              IF exitCode # 0 THEN ExitMessage(exitCode)
              ELSE IF mode = "stream" THEN GenerateFailureMessage(finishedAt)
              ELSE StreamFailureMessage(closeAt)

\* C37: in doStream the toolName of a tool-result equals the toolName of the
\* tool-input-start and the tool-call that carry the same toolCallId.
C37_ResultNamedAsCall ==
    mode = "stream" =>
        \A i, j \in Indices(out) :
            (/\ out[i].type \in {"tool-input-start", "tool-call"}
             /\ out[j].type = "tool-result"
             /\ out[j].id = out[i].id)
                => out[j].toolName = out[i].toolName

\* C38: when doStream has emitted finish, every tool-call emitted before it
\* is followed, before finish, by a tool-result with the same toolCallId, and
\* the tracking table is empty.
C38_FinishLeavesNoOpenTool ==
    mode = "stream" =>
        \A f \in Indices(out) :
            out[f].type = "finish" =>
                /\ DOMAIN activeTools = {}
                /\ \A i \in 1..(f - 1) :
                      out[i].type = "tool-call" =>
                          \E j \in (i + 1)..(f - 1) :
                              out[j].type = "tool-result" /\ out[j].id = out[i].id

\* C39: the text accumulated from events is the text of the last
\* item.completed assistant message with a string text: handling such an
\* event replaces the text, whatever was accumulated before, and a request
\* that succeeds when that last text is empty reads the sidecar file and
\* returns its trimmed content.
C39_LastAssistantTextWins ==
    [][/\ (processed' # processed /\ IsAssistantText(LastEvent))
             => text' = LastEvent.item.text
       /\ (/\ pc # "done" /\ pc' = "done" /\ outcome' = "success"
           /\ LastAssistantText(processed) = <<>>)
             => /\ sidecarReads' = sidecarReads + 1
                /\ resultText' = TrimmedSidecar]_vars

\* C39 witness: the assistant message 'ok' was followed by one with the empty
\* text; the request succeeded with the trimmed sidecar content, not with 'ok'.
C39_Witness ==
    /\ pc = "done"
    /\ outcome = "success"
    /\ Concluded = <<AssistantMessage(<<"o", "k">>), AssistantMessage(<<>>)>>
    /\ sidecarReads = 1
    /\ resultText = <<"f">>

\* C40: once 'close' has been delivered the request concludes, doGenerate
\* with a settled promise and doStream with a closed or errored channel, and
\* a settled promise or a concluded request never changes its outcome.
C40_ConcludesOnceAfterClose ==
    /\ (pc = "closing") ~> (pc = "done" /\ outcome \in {"success", "failure"})
    /\ [][/\ outcome # "pending" => outcome' = outcome
          /\ promise # "pending" => promise' = promise
          /\ (mode = "generate" /\ pc = "running" /\ pc' = "closing")
                => promise' # "pending"]_vars

\* C40 witness: 'close' was delivered with a non-zero exit code and the
\* request has concluded as a failure carrying the exit message.
C40_Witness ==
    /\ pc = "done"
    /\ closeAt >= 0
    /\ exitCode = 1
    /\ outcome = "failure"
    /\ error.message = ExitMessage(1)

====
